---- MODULE Spec2Model ----
(***************************************************************************)
(* A model of photo-tools: the EXIF value normaliser, the camera-settings  *)
(* extractors, the GPS converters, the batch directory scan and the        *)
(* command-line driver.                                                    *)
(*                                                                         *)
(* Python values are tagged records.  A float is a record F = [k, n, d]:   *)
(*   k = "fin"  the rational n/d in lowest terms, d > 0                    *)
(*   k = "inf"  +infinity (n = 1) or -infinity (n = -1)                    *)
(*   k = "nan"  not-a-number                                               *)
(*   k = "pow"  the positive finite real 2^(n/d) that has no small exact   *)
(*              rational form                                              *)
(*   k = "none" Python's None where a float was expected                   *)
(* Rounding of finite floats is not modelled: finite arithmetic is exact.  *)
(***************************************************************************)
EXTENDS Integers, Sequences, FiniteSets, TLC

VARIABLES
    raw,        \* conversion: the raw tag value handed to the normaliser
    cpc,        \* conversion: "input" before a call, the callee's name after
    tfOut,      \* conversion: what to_float returned (or raised)
    exOut,      \* conversion: what the extract_* method returned (or raised)
    fmtOut,     \* conversion: what format_shutter_speed returned (or raised)
    setOut,     \* conversion: what parse_camera_settings returned (or raised)
    image,      \* analysis: the file handed to ExifAnalyzer / GPSExtractor
    apc,        \* analysis: "input" before a call, the callee's name after
    gpsOut,     \* analysis: what the GPSExtractor method returned (or raised)
    anOut,      \* analysis: what analyze_image returned
    directory,  \* batch: the files under the scanned directory, in listing order
    platform,   \* batch: "posix" or "windows" (how glob compares letters)
    recursive,  \* batch: the recursive argument
    bpc,        \* batch: position in process_photo_directory
    image_files,\* batch: the enumerated files (positions in directory)
    idx,        \* batch: the number of enumerated files already handled
    photo_data, \* batch: the records collected so far
    berr,       \* batch: the exception that left process_photo_directory, or ""
    args,       \* cli: the parsed command line
    mpc,        \* cli: position in main
    analyzerCreated, \* cli: whether PhotoMetadataAnalyzer() was constructed
    opened,     \* cli: the number of files handed to Image.open
    insights,   \* cli: what generate_insights returned
    written,    \* cli: the kinds of output file written
    exitCode,   \* cli: the exit status, -1 while main runs
    columns,    \* cli: the columns of the frame df
    exported,   \* cli: the columns of the data file written
    frame,      \* report: the camera and the lens of each record of the frame
    rpc,        \* report: "input" before a computation, its name after
    most_used,  \* report: the most-used value that is shown
    staged_operations, \* staging: the operations of the StagingManager, in order
    clock,      \* staging: the second that datetime.now() shows
    sout,       \* staging: the last call of the StagingManager and its result
    observers,  \* monitoring: every Observer created so far
    observer,   \* monitoring: st.session_state.observer, 0 for None
    mout        \* monitoring: the last call and its result

convVars == <<raw, cpc, tfOut, exOut, fmtOut, setOut>>
analyzeVars == <<image, apc, gpsOut, anOut>>
batchVars == <<directory, platform, recursive, bpc, image_files, idx, photo_data, berr>>
cliVars == <<args, mpc, analyzerCreated, opened, insights, written, exitCode, columns, exported>>
reportVars == <<frame, rpc, most_used>>
stagingVars == <<staged_operations, clock, sout>>
monitorVars == <<observers, observer, mout>>
dashVars == <<stagingVars, monitorVars>>
vars == <<convVars, analyzeVars, batchVars, cliVars, reportVars, dashVars>>

\* The variables of the other components, which a component leaves alone.
convRest == <<analyzeVars, batchVars, cliVars, reportVars, dashVars>>
analyzeRest == <<convVars, batchVars, cliVars, reportVars, dashVars>>
batchRest == <<convVars, analyzeVars, cliVars, reportVars, dashVars>>
cliRest == <<convVars, analyzeVars, reportVars, dashVars>>
reportRest == <<convVars, analyzeVars, batchVars, cliVars, dashVars>>
stagingRest == <<convVars, analyzeVars, batchVars, cliVars, reportVars, monitorVars>>
monitorRest == <<convVars, analyzeVars, batchVars, cliVars, reportVars, stagingVars>>

\* A component that is not running.
ConvIdle ==
    /\ raw = "none" /\ cpc = "idle" /\ tfOut = "none" /\ exOut = "none"
    /\ fmtOut = "none" /\ setOut = "none"
AnalyzeIdle == image = "none" /\ apc = "idle" /\ gpsOut = "none" /\ anOut = "none"
BatchIdle ==
    /\ directory = <<>> /\ platform = "posix" /\ recursive = TRUE /\ bpc = "idle"
    /\ image_files = <<>> /\ idx = 0 /\ photo_data = <<>> /\ berr = ""
CliIdle ==
    /\ args = "none" /\ mpc = "idle" /\ analyzerCreated = FALSE /\ opened = 0
    /\ insights = "none" /\ written = {} /\ exitCode = -1
    /\ columns = {} /\ exported = {}
ReportIdle == frame = <<>> /\ rpc = "idle" /\ most_used = "none"
StagingIdle == staged_operations = <<>> /\ clock = 0 /\ sout = "none"
MonitorIdle == observers = <<>> /\ observer = 0 /\ mout = "none"

(***************************************************************************)
(* Bounds of the explored inputs.                                          *)
(***************************************************************************)
MaxNum == 2        \* integers -MaxNum..MaxNum, floats in halves up to MaxNum/2
MaxTextLen == 3    \* characters in a text value
MaxSeqLen == 3     \* elements in a flat sequence value

(***************************************************************************)
(* Floats.                                                                 *)
(***************************************************************************)
Abs(x) == IF x < 0 THEN -x ELSE x

RECURSIVE Gcd(_, _)
Gcd(a, b) == IF b = 0 THEN a ELSE Gcd(b, a % b)

RECURSIVE Pow(_, _)
Pow(b, e) == IF e = 0 THEN 1 ELSE b * Pow(b, e - 1)

NoneF == [k |-> "none", n |-> 0, d |-> 0]
NaN == [k |-> "nan", n |-> 0, d |-> 0]
Inf(sign) == [k |-> "inf", n |-> sign, d |-> 0]

\* The finite float n/d (d # 0), in lowest terms with a positive denominator.
Fin(n, d) ==
    LET g == Gcd(Abs(n), Abs(d))
        s == IF d < 0 THEN -1 ELSE 1
    IN [k |-> "fin", n |-> (s * n) \div g, d |-> (s * d) \div g]

Sign(f) == IF f.n < 0 THEN -1 ELSE IF f.n > 0 THEN 1 ELSE 0

IsFloat(f) == f.k \in {"fin", "inf", "nan", "pow"}
IsFinite(f) == f.k \in {"fin", "pow"}
IsZero(f) == f.k = "fin" /\ f.n = 0

FNeg(f) ==
    CASE f.k = "fin" -> Fin(-f.n, f.d)
      [] f.k = "inf" -> Inf(-f.n)
      [] OTHER -> f

\* IEEE division a / b of two floats, b not zero (Python raises before it
\* divides by zero).
FloatDivide(a, b) ==
    CASE a.k = "nan" \/ b.k = "nan" -> NaN
      [] a.k = "inf" /\ b.k = "inf" -> NaN
      [] a.k = "inf" -> Inf(a.n * Sign(b))
      [] b.k = "inf" -> Fin(0, 1)
      [] OTHER -> Fin(a.n * b.d, a.d * b.n)

(***************************************************************************)
(* Raw tag values: None, int, float, str, bytes, tuple/list, an object of  *)
(* another type.  Text and byte strings are sequences of characters.  A    *)
(* value is a record of one shape: its tag t and the payload of each kind. *)
(***************************************************************************)
RawValue(t, i, f, s, e) == [t |-> t, i |-> i, f |-> f, s |-> s, e |-> e]

\* A mapping (an IFD dictionary) is the sequence of its entries; an entry
\* holds its key in s and its value in e.
Entry(key, v) == RawValue("entry", 0, NoneF, <<key>>, <<v>>)
RMap(entries) == RawValue("map", 0, NoneF, <<>>, entries)
IsMap(v) == v.t = "map"

Keys(m) == {m.e[j].s[1] : j \in 1..Len(m.e)}
ValueAt(m, key) == m.e[CHOOSE j \in 1..Len(m.e) : m.e[j].s[1] = key].e[1]

\* The dictionary built from the items of a mapping.
AsDict(m) == [key \in Keys(m) |-> ValueAt(m, key)]

RNone == RawValue("none", 0, NoneF, <<>>, <<>>)
RInt(i) == RawValue("int", i, NoneF, <<>>, <<>>)
RFloat(f) == RawValue("float", 0, f, <<>>, <<>>)
RStr(s) == RawValue("str", 0, NoneF, s, <<>>)
RBytes(s) == RawValue("bytes", 0, NoneF, s, <<>>)
RSeq(e) == RawValue("seq", 0, NoneF, <<>>, e)
ROther == RawValue("other", 0, NoneF, <<>>, <<>>)

IsSeq(v) == v.t = "seq"
IsNumber(v) == v.t \in {"int", "float"}

(***************************************************************************)
(* Outcomes of a call: a returned pair (value, diagnostic) or an           *)
(* exception (info names its class).                                       *)
(***************************************************************************)
Ret(val, info) == [kind |-> "return", val |-> val, info |-> info]
Raise(exc) == [kind |-> "raise", val |-> NoneF, info |-> exc]

(***************************************************************************)
(* float(x): Python's conversion of a value to a float.                    *)
(***************************************************************************)
Digits == {"0", "1", "2"}
Alphabet == Digits \cup {"-", ".", "n", "a", "i", "f"}

DigitVal(c) == CASE c = "0" -> 0 [] c = "1" -> 1 [] c = "2" -> 2 [] OTHER -> 0

AllDigits(s) == \A i \in 1..Len(s) : s[i] \in Digits

RECURSIVE DecVal(_)
DecVal(s) ==
    IF s = <<>> THEN 0
    ELSE 10 * DecVal(SubSeq(s, 1, Len(s) - 1)) + DigitVal(s[Len(s)])

\* The float an unsigned literal denotes, NoneF when it is none.
ParseUnsigned(s) ==
    LET dots == {i \in 1..Len(s) : s[i] = "."}
    IN  CASE s = <<"i", "n", "f">> -> Inf(1)
          [] s = <<"n", "a", "n">> -> NaN
          [] dots = {} ->
               IF Len(s) > 0 /\ AllDigits(s) THEN Fin(DecVal(s), 1) ELSE NoneF
          [] Cardinality(dots) = 1 ->
               LET p == CHOOSE i \in dots : TRUE
                   ip == SubSeq(s, 1, p - 1)
                   fp == SubSeq(s, p + 1, Len(s))
               IN  IF AllDigits(ip) /\ AllDigits(fp) /\ Len(ip) + Len(fp) > 0
                   THEN Fin(DecVal(ip) * Pow(10, Len(fp)) + DecVal(fp),
                            Pow(10, Len(fp)))
                   ELSE NoneF
          [] OTHER -> NoneF

NegateParsed(u) == IF u.k = "none" THEN NoneF ELSE FNeg(u)

\* float(text): an optional sign, then digits with an optional point, or inf,
\* or nan.
ParseFloat(s) ==
    IF Len(s) > 0 /\ s[1] = "-"
    THEN NegateParsed(ParseUnsigned(Tail(s)))
    ELSE ParseUnsigned(s)

\* A text that denotes no float raises ValueError.
ParsedOrValueError(f) == IF f.k = "none" THEN Raise("ValueError") ELSE Ret(f, "")

PyFloat(v) ==
    CASE v.t = "int" -> Ret(Fin(v.i, 1), "")
      [] v.t = "float" -> Ret(v.f, "")
      [] v.t \in {"str", "bytes"} -> ParsedOrValueError(ParseFloat(v.s))
      [] OTHER -> Raise("TypeError")

\* value == 0 in Python: true of the integer 0 and of the float 0.0 only.
PyEqZero(v) ==
    \/ v.t = "int" /\ v.i = 0
    \/ v.t = "float" /\ IsZero(v.f)

\* fa / fb for the outcomes fa, fb of two float() calls, evaluated in order.
QuotientOf(fa, fb) ==
    CASE fa.kind = "raise" -> fa
      [] fb.kind = "raise" -> fb
      [] IsZero(fb.val) -> Raise("ZeroDivisionError")
      [] OTHER -> Ret(FloatDivide(fa.val, fb.val), "")

\* float(a) / float(b).
PyFloatQuotient(a, b) == QuotientOf(PyFloat(a), PyFloat(b))

(***************************************************************************)
(* ExifValueConverter.to_float                                             *)
(***************************************************************************)
\* return result, "Fraction n/d = result" (an exception passes through).
FractionResult(q) == IF q.kind = "raise" THEN q ELSE Ret(q.val, "Fraction")

\* IEEE division that yields infinity or NaN for a zero denominator.
QuotientUnguarded(fa, fb) ==
    CASE fa.kind = "raise" -> fa
      [] fb.kind = "raise" -> fb
      [] IsZero(fb.val) ->
           Ret(IF IsZero(fa.val) \/ fa.val.k = "nan" THEN NaN
               ELSE Inf(Sign(fa.val)), "")
      [] OTHER -> Ret(FloatDivide(fa.val, fb.val), "")

\* Mutant: the fraction is divided without the zero test, in arithmetic that
\* yields infinity or NaN for a zero denominator.
FractionBranchUnguarded(value) ==
    FractionResult(QuotientUnguarded(PyFloat(value.e[1]), PyFloat(value.e[2])))

\* Mutant: numerator and denominator are taken in the wrong order.
FractionBranchSwapped(value) ==
    IF PyEqZero(value.e[2])
    THEN Ret(NoneF, "Division by zero in fraction")
    ELSE FractionResult(PyFloatQuotient(value.e[2], value.e[1]))

\* The tuple-fraction branch: value is a sequence of at least 2 elements.
FractionBranch(value) ==
    IF PyEqZero(value.e[2])
    THEN Ret(NoneF, "Division by zero in fraction")
    ELSE FractionResult(PyFloatQuotient(value.e[1], value.e[2]))

\* try: return float(value), "String parsed" except ValueError: return None, ...
StringBranch(parsed) ==
    IF parsed.kind = "raise"
    THEN Ret(NoneF, "Non-numeric string")
    ELSE Ret(parsed.val, "String parsed")

\* Mutant: no except clause, the exception leaves to_float.
ExceptHandlerMissing(outcome) == outcome

\* except Exception as e: return None, "Conversion error: ..."
ExceptHandler(outcome) ==
    IF outcome.kind = "raise" THEN Ret(NoneF, "Conversion error") ELSE outcome

\* Mutant: the test for a direct numeric value is missing.
BranchWithoutNumeric(value) ==
    CASE value.t = "none" -> "none"
      [] IsSeq(value) /\ Len(value.e) >= 2 -> "fraction"
      [] value.t = "str" -> "string"
      [] value.t = "bytes" -> "bytes"
      [] IsSeq(value) /\ Len(value.e) = 1 -> "single"
      [] OTHER -> "unknown"

\* Mutant: the test for a single-item sequence is missing.
BranchWithoutSingle(value) ==
    CASE value.t = "none" -> "none"
      [] IsSeq(value) /\ Len(value.e) >= 2 -> "fraction"
      [] IsNumber(value) -> "numeric"
      [] value.t = "str" -> "string"
      [] value.t = "bytes" -> "bytes"
      [] OTHER -> "unknown"

\* The branch of the try block that a value takes.
Branch(value) ==
    CASE value.t = "none" -> "none"
      [] IsSeq(value) /\ Len(value.e) >= 2 -> "fraction"
      [] IsNumber(value) -> "numeric"
      [] value.t = "str" -> "string"
      [] value.t = "bytes" -> "bytes"
      [] IsSeq(value) /\ Len(value.e) = 1 -> "single"
      [] OTHER -> "unknown"

RECURSIVE ToFloat(_)

ToFloat(value) ==
    ExceptHandler(
        CASE Branch(value) = "none" -> Ret(NoneF, "None value")
          [] Branch(value) = "fraction" -> FractionBranch(value)
          [] Branch(value) = "numeric" -> Ret(PyFloat(value).val, "Direct numeric")
          [] Branch(value) = "string" -> StringBranch(PyFloat(value))
          [] Branch(value) = "bytes" -> Ret(NoneF, "Bytes data - not numeric")
          [] Branch(value) = "single" -> ToFloat(value.e[1])
          [] OTHER -> Ret(NoneF, "Unknown type"))

Diagnostics ==
    {"None value", "Division by zero in fraction", "Fraction", "Direct numeric",
     "String parsed", "Non-numeric string", "Bytes data - not numeric",
     "Unknown type", "Conversion error"}

(***************************************************************************)
(* CameraSettingsExtractor: extract_setting and the four numeric           *)
(* extractors.  An EXIF dictionary is a function from tag names to raw     *)
(* values.  An extractor returns a dictionary of floats or raises; the     *)
(* returned dictionary is a function on the extractor's tags that maps a   *)
(* key it does not hold to NoneF.                                          *)
(***************************************************************************)
ReturnX(res) == [kind |-> "return", res |-> res, exc |-> ""]
RaiseX(exc) == [kind |-> "raise", res |-> <<>>, exc |-> exc]

Stored(res) == {t \in DOMAIN res : res[t].k # "none"}

\* The converted value of a tag, NoneF when the tag is not in the dictionary.
ExtractSetting(exif_data, tag_name) ==
    IF tag_name \notin DOMAIN exif_data
    THEN Ret(NoneF, "Tag not found")
    ELSE ToFloat(exif_data[tag_name])

\* 2 ** x for a float x: OverflowError when the power exceeds the float range.
PyPow2(x) ==
    CASE x.k = "nan" -> Ret(NaN, "")
      [] x.k = "inf" -> Ret(IF x.n > 0 THEN Inf(1) ELSE Fin(0, 1), "")
      [] x.n >= 1024 * x.d -> Raise("OverflowError")
      [] x.d = 1 /\ x.n >= 0 /\ x.n <= 30 -> Ret(Fin(Pow(2, x.n), 1), "")
      [] x.d = 1 /\ x.n < 0 /\ x.n >= -30 -> Ret(Fin(1, Pow(2, -x.n)), "")
      [] OTHER -> Ret([k |-> "pow", n |-> x.n, d |-> x.d], "")

\* try: stored = 2 ** ... except Exception: the field is not stored.
StoredUnlessRaised(p) == IF p.kind = "raise" THEN NoneF ELSE p.val

\* Mutant: the exponent is the APEX value, not half of it.
ApexApertureWholeExponent(apex) == StoredUnlessRaised(PyPow2(apex))

\* f_stop = 2 ** (apex_value / 2)
ApexAperture(apex) == StoredUnlessRaised(PyPow2(FloatDivide(apex, Fin(2, 1))))

\* Mutant: the exponent is the APEX value, not its negation.
ApexShutterPositiveExponent(apex) == StoredUnlessRaised(PyPow2(apex))

\* calculated_time = 2 ** (-apex_value)
ApexShutter(apex) == StoredUnlessRaised(PyPow2(FNeg(apex)))

ApertureTags == {"FNumber", "ApertureValue", "MaxApertureValue"}

ApertureOf(tag, v) ==
    CASE v.k = "none" -> NoneF
      [] tag = "FNumber" -> v
      [] OTHER -> ApexAperture(v)

ExtractAperture(exif_data) ==
    ReturnX([t \in ApertureTags |->
               ApertureOf(t, ExtractSetting(exif_data, t).val)])

ShutterTags == {"ExposureTime", "ShutterSpeedValue"}

ShutterOf(tag, v) ==
    CASE v.k = "none" -> NoneF
      [] tag = "ExposureTime" -> v
      [] OTHER -> ApexShutter(v)

ExtractShutterSpeed(exif_data) ==
    ReturnX([t \in ShutterTags |->
               ShutterOf(t, ExtractSetting(exif_data, t).val)])

\* The integer part of n/d (d > 0), rounded toward zero.
Trunc(n, d) == IF n >= 0 THEN n \div d ELSE -((-n) \div d)

\* int(x) for a float x: the integer part, ValueError on NaN, OverflowError on
\* infinity.  (A power 2^(n/d) is never converted; it is left as it is.)
PyIntOfFloat(x) ==
    CASE x.k = "nan" -> Raise("ValueError")
      [] x.k = "inf" -> Raise("OverflowError")
      [] x.k = "fin" -> Ret(Fin(Trunc(x.n, x.d), 1), "")
      [] OTHER -> Ret(x, "")

iso_tags ==
    <<"ISOSpeedRatings", "ISO", "RecommendedExposureIndex", "PhotographicSensitivity">>

IsoTags == {iso_tags[i] : i \in 1..Len(iso_tags)}

\* The value converted for an ISO tag: of the first element when the raw
\* value is a sequence, nothing when that sequence is empty.
IsoOperand(raw_value) ==
    IF IsSeq(raw_value)
    THEN IF Len(raw_value.e) > 0 THEN raw_value.e[1] ELSE RNone
    ELSE raw_value

IsoField(exif_data, tag) ==
    IF tag \notin DOMAIN exif_data THEN NoneF
    ELSE ToFloat(IsoOperand(exif_data[tag])).val

\* format_iso(iso_value), evaluated for a stored value: int(iso_value) raises
\* on NaN and on infinity.
FormatIso(iso_value) ==
    IF iso_value.k = "none" THEN Ret(NoneF, "") ELSE PyIntOfFloat(iso_value)

\* The exception of the first tag, in the order of iso_tags, whose value
\* format_iso fails on; "" when there is none.
FirstIsoError(res) ==
    CASE FormatIso(res[iso_tags[1]]).kind = "raise" -> FormatIso(res[iso_tags[1]]).info
      [] FormatIso(res[iso_tags[2]]).kind = "raise" -> FormatIso(res[iso_tags[2]]).info
      [] FormatIso(res[iso_tags[3]]).kind = "raise" -> FormatIso(res[iso_tags[3]]).info
      [] FormatIso(res[iso_tags[4]]).kind = "raise" -> FormatIso(res[iso_tags[4]]).info
      [] OTHER -> ""

\* format_iso is evaluated for every stored value, outside any try.
IsoOutcome(res) ==
    IF FirstIsoError(res) # "" THEN RaiseX(FirstIsoError(res)) ELSE ReturnX(res)

ExtractIso(exif_data) ==
    IsoOutcome([t \in IsoTags |-> IsoField(exif_data, t)])

FocalTags == {"FocalLength", "FocalLengthIn35mmFilm"}

ExtractFocalLength(exif_data) ==
    ReturnX([t \in FocalTags |-> ExtractSetting(exif_data, t).val])

(***************************************************************************)
(* The raw values explored.                                                *)
(***************************************************************************)
Ints == (-MaxNum..MaxNum) \cup {200, 2048, -2048}
Floats ==
    {Fin(n, 2) : n \in -MaxNum..MaxNum}
    \cup {Fin(2, 1), Fin(2, 5), Fin(3, 5), Fin(1, 2000), Inf(1), Inf(-1), NaN}
Texts == UNION {[1..n -> Alphabet] : n \in 0..MaxTextLen}

Scalars ==
    {RNone, ROther} \cup {RInt(i) : i \in Ints} \cup {RFloat(f) : f \in Floats}
    \cup {RStr(s) : s \in Texts}
    \cup {RBytes(s) : s \in {<<>>, <<"1">>, <<"n", "a", "n">>}}

SeqElems ==
    {RNone, ROther, RInt(0), RInt(1), RInt(2), RInt(-1), RFloat(Fin(1, 2)),
     RFloat(Fin(0, 1)), RFloat(Inf(1)), RFloat(NaN), RStr(<<"0">>),
     RStr(<<"2">>), RStr(<<"a">>), RBytes(<<"1">>)}

FlatSeqs == {RSeq(e) : e \in UNION {[1..n -> SeqElems] : n \in 0..MaxSeqLen}}

InnerSeqs == {RSeq(e) : e \in UNION {[1..n -> {RInt(0), RInt(1), RStr(<<"2">>)}] : n \in 0..2}}

NestedSeqs ==
    {RSeq(e) : e \in UNION {[1..n -> InnerSeqs \cup {RInt(2)}] : n \in 1..2}}
    \cup {RSeq(<<RSeq(<<RSeq(<<RInt(2)>>)>>)>>), RSeq(<<RSeq(<<RSeq(<<RInt(1), RInt(2)>>)>>)>>)}

RawValues == Scalars \cup FlatSeqs \cup NestedSeqs

(***************************************************************************)
(* Conversion: one raw value is drawn and one converter is applied to it.  *)
(***************************************************************************)
NoOut == [kind |-> "pending", val |-> NoneF, info |-> ""]
NoExOut == [kind |-> "pending", res |-> <<>>, exc |-> "", tag |-> ""]
NoSetOut == [tag |-> "", out |-> [kind |-> "pending"]]

WithTag(x, tag) == [kind |-> x.kind, res |-> x.res, exc |-> x.exc, tag |-> tag]

ConvInit ==
    /\ raw \in RawValues
    /\ cpc = "input"
    /\ tfOut = NoOut
    /\ exOut = NoExOut
    /\ fmtOut = NoOut
    /\ setOut = NoSetOut
    /\ AnalyzeIdle
    /\ BatchIdle
    /\ CliIdle
    /\ ReportIdle
    /\ StagingIdle
    /\ MonitorIdle

CallToFloat ==
    /\ cpc = "input"
    /\ cpc' = "to_float"
    /\ tfOut' = ToFloat(raw)
    /\ UNCHANGED <<raw, exOut, fmtOut, setOut>>
    /\ UNCHANGED convRest

CallExtractAperture ==
    /\ cpc = "input"
    /\ \E tag \in ApertureTags :
         exOut' = WithTag(ExtractAperture(tag :> raw), tag)
    /\ cpc' = "extract_aperture"
    /\ UNCHANGED <<raw, tfOut, fmtOut, setOut>>
    /\ UNCHANGED convRest

CallExtractShutterSpeed ==
    /\ cpc = "input"
    /\ \E tag \in ShutterTags :
         exOut' = WithTag(ExtractShutterSpeed(tag :> raw), tag)
    /\ cpc' = "extract_shutter_speed"
    /\ UNCHANGED <<raw, tfOut, fmtOut, setOut>>
    /\ UNCHANGED convRest

CallExtractIso ==
    /\ cpc = "input"
    /\ \E tag \in IsoTags :
         exOut' = WithTag(ExtractIso(tag :> raw), tag)
    /\ cpc' = "extract_iso"
    /\ UNCHANGED <<raw, tfOut, fmtOut, setOut>>
    /\ UNCHANGED convRest

CallExtractFocalLength ==
    /\ cpc = "input"
    /\ \E tag \in FocalTags :
         exOut' = WithTag(ExtractFocalLength(tag :> raw), tag)
    /\ cpc' = "extract_focal_length"
    /\ UNCHANGED <<raw, tfOut, fmtOut, setOut>>
    /\ UNCHANGED convRest

\* to_float is applied to the float that to_float has returned.
CallToFloatAgain ==
    /\ cpc = "to_float"
    /\ tfOut.kind = "return"
    /\ tfOut.val.k # "none"
    /\ cpc' = "to_float_again"
    /\ raw' = RFloat(tfOut.val)
    /\ tfOut' = ToFloat(RFloat(tfOut.val))
    /\ UNCHANGED <<exOut, fmtOut, setOut>>
    /\ UNCHANGED convRest

ConvNext ==
    \/ CallToFloat
    \/ CallToFloatAgain
    \/ CallExtractAperture
    \/ CallExtractShutterSpeed
    \/ CallExtractIso
    \/ CallExtractFocalLength

SpecConv == ConvInit /\ [][ConvNext]_vars

(***************************************************************************)
(* C1: to_float never raises: for every raw value it returns a pair whose  *)
(* first component is a float or None and whose second component is a      *)
(* diagnostic text.                                                        *)
(***************************************************************************)
C1_ToFloatTotal ==
    cpc = "to_float" =>
        /\ tfOut.kind = "return"
        /\ tfOut.val.k \in {"fin", "inf", "nan", "none"}
        /\ tfOut.info \in Diagnostics

\* A malformed pair, whose conversion raises inside the try block, has been
\* converted.
C1_Witness ==
    /\ cpc = "to_float"
    /\ raw = RSeq(<<RStr(<<"a">>), RInt(1)>>)
    /\ tfOut = Ret(NoneF, "Conversion error")

(***************************************************************************)
(* C2: for every rational pair (n, d) of numbers with d # 0,               *)
(* to_float((n, d)) returns the numeric value n/d.  With n = a/b and       *)
(* d = c/e the returned r satisfies r * (b * c) = a * e.                   *)
(***************************************************************************)
IsFiniteNumber(v) == v.t = "int" \/ (v.t = "float" /\ v.f.k = "fin")
Numer(v) == IF v.t = "int" THEN v.i ELSE v.f.n
Denom(v) == IF v.t = "int" THEN 1 ELSE v.f.d

IsRationalPair(v) ==
    /\ IsSeq(v)
    /\ Len(v.e) = 2
    /\ IsFiniteNumber(v.e[1])
    /\ IsFiniteNumber(v.e[2])

C2_FractionValue ==
    (cpc = "to_float" /\ IsRationalPair(raw) /\ Numer(raw.e[2]) # 0) =>
        /\ tfOut.kind = "return"
        /\ tfOut.val.k = "fin"
        /\ tfOut.val.n * Denom(raw.e[1]) * Numer(raw.e[2])
             = tfOut.val.d * Numer(raw.e[1]) * Denom(raw.e[2])

\* The pair (1, 2) has been converted to 0.5.
C2_Witness ==
    /\ cpc = "to_float"
    /\ raw = RSeq(<<RInt(1), RInt(2)>>)
    /\ tfOut.val = [k |-> "fin", n |-> 1, d |-> 2]

(***************************************************************************)
(* C3: for every n, to_float((n, 0)) returns None together with a          *)
(* diagnostic; it does not raise and it does not return infinity.          *)
(***************************************************************************)
C3_ZeroDenominator ==
    (/\ cpc = "to_float"
     /\ IsSeq(raw)
     /\ Len(raw.e) = 2
     /\ raw.e[2] \in {RInt(0), RFloat([k |-> "fin", n |-> 0, d |-> 1])}) =>
        /\ tfOut.kind = "return"
        /\ tfOut.val = NoneF
        /\ tfOut.info \in Diagnostics

\* The pair (1, 0) has been converted.
C3_Witness ==
    /\ cpc = "to_float"
    /\ raw = RSeq(<<RInt(1), RInt(0)>>)
    /\ tfOut = Ret(NoneF, "Division by zero in fraction")

(***************************************************************************)
(* C4: every numeric value the normaliser produces is finite or absent:    *)
(* the float returned by to_float, and every value stored by               *)
(* extract_aperture, extract_shutter_speed, extract_iso and                *)
(* extract_focal_length, is a finite number, never NaN and never infinity. *)
(***************************************************************************)
C4_FiniteOrAbsent ==
    /\ cpc = "to_float" => tfOut.val.k \in {"fin", "none"}
    /\ exOut.kind = "return" =>
         \A t \in Stored(exOut.res) : IsFinite(exOut.res[t])

(***************************************************************************)
(* GPSExtractor.convert_gps_to_decimal and its inner convert_coordinate.   *)
(***************************************************************************)
\* The outcome of an expression whose value is a raw value.
RetV(v) == [kind |-> "return", v |-> v, exc |-> ""]
RaiseV(exc) == [kind |-> "raise", v |-> RNone, exc |-> exc]

\* The code of a byte of the alphabet.
ByteVal(c) ==
    CASE c = "0" -> 48 [] c = "1" -> 49 [] c = "2" -> 50 [] c = "-" -> 45
      [] c = "." -> 46 [] c = "n" -> 110 [] c = "a" -> 97 [] c = "i" -> 105
      [] c = "f" -> 102 [] c = "x01" -> 1 [] OTHER -> 0

\* c[j] for the 0-based index j: IndexError past the end of a sequence, a text
\* or a byte string, KeyError for a mapping (whose keys are tags), TypeError
\* for a value that has no subscript.
PySubscript(c, j) ==
    CASE c.t = "seq" -> IF Len(c.e) > j THEN RetV(c.e[j + 1]) ELSE RaiseV("IndexError")
      [] c.t = "str" ->
           IF Len(c.s) > j THEN RetV(RStr(<<c.s[j + 1]>>)) ELSE RaiseV("IndexError")
      [] c.t = "bytes" ->
           IF Len(c.s) > j THEN RetV(RInt(ByteVal(c.s[j + 1]))) ELSE RaiseV("IndexError")
      [] c.t = "map" -> RaiseV("KeyError")
      [] OTHER -> RaiseV("TypeError")

\* not value: None, zero and every empty container are false.
PyTruthy(v) ==
    CASE v.t = "none" -> FALSE
      [] v.t = "int" -> v.i # 0
      [] v.t = "float" -> ~IsZero(v.f)
      [] v.t \in {"str", "bytes"} -> Len(v.s) > 0
      [] v.t \in {"seq", "map"} -> Len(v.e) > 0
      [] OTHER -> TRUE

\* IEEE addition.
FloatAdd(a, b) ==
    CASE a.k = "nan" \/ b.k = "nan" -> NaN
      [] a.k = "inf" /\ b.k = "inf" -> IF a.n = b.n THEN a ELSE NaN
      [] a.k = "inf" -> a
      [] b.k = "inf" -> b
      [] OTHER -> Fin(a.n * b.d + b.n * a.d, a.d * b.d)

\* float(c[0]) / float(c[1]), evaluated left to right: s0, s1 are the
\* outcomes of the two subscripts.
QuotientAfterSecond(f0, s1) ==
    CASE f0.kind = "raise" -> f0
      [] s1.kind = "raise" -> Raise(s1.exc)
      [] OTHER -> QuotientOf(f0, PyFloat(s1.v))

QuotientAfterFirst(s0, s1) ==
    IF s0.kind = "raise" THEN Raise(s0.exc)
    ELSE QuotientAfterSecond(PyFloat(s0.v), s1)

\* One of degrees, minutes, seconds: float(c) for a number, otherwise
\* float(c[0]) / float(c[1]).
Component(c) ==
    IF IsNumber(c) THEN PyFloat(c)
    ELSE QuotientAfterFirst(PySubscript(c, 0), PySubscript(c, 1))

\* Mutant: degrees, minutes and seconds are added without their weights.
DmsSumUnweighted(degrees, minutes, seconds) ==
    CASE degrees.kind = "raise" -> degrees
      [] minutes.kind = "raise" -> minutes
      [] seconds.kind = "raise" -> seconds
      [] OTHER -> Ret(FloatAdd(FloatAdd(degrees.val, minutes.val), seconds.val), "")

\* degrees + (minutes / 60.0) + (seconds / 3600.0)
DmsSum(degrees, minutes, seconds) ==
    CASE degrees.kind = "raise" -> degrees
      [] minutes.kind = "raise" -> minutes
      [] seconds.kind = "raise" -> seconds
      [] OTHER ->
           Ret(FloatAdd(FloatAdd(degrees.val,
                                 FloatDivide(minutes.val, Fin(60, 1))),
                        FloatDivide(seconds.val, Fin(3600, 1))), "")

\* The try block of convert_coordinate.
CoordinateTry(coord_value) ==
    IF IsSeq(coord_value) /\ Len(coord_value.e) >= 3
    THEN DmsSum(Component(coord_value.e[1]), Component(coord_value.e[2]),
                Component(coord_value.e[3]))
    ELSE PyFloat(coord_value)

CaughtByCoordinate == {"ValueError", "TypeError", "ZeroDivisionError"}

\* except (ValueError, TypeError, ZeroDivisionError): return None
CoordinateExcept(outcome) ==
    IF outcome.kind = "raise" /\ outcome.info \in CaughtByCoordinate
    THEN Ret(NoneF, "")
    ELSE outcome

convert_coordinate(coord_value) ==
    IF coord_value.t = "none" THEN Ret(NoneF, "")
    ELSE CoordinateExcept(CoordinateTry(coord_value))

\* gps_info.get(key)
DictGet(d, key) == IF key \in DOMAIN d THEN d[key] ELSE RNone

\* ref == 'S', ref == 'W': equality with a one-character text.
PyEqText(v, c) == v.t = "str" /\ v.s = <<c>>

\* ref == 1: true of the integer 1 and of the float 1.0, false of any byte
\* string.
PyEqOne(v) ==
    \/ v.t = "int" /\ v.i = 1
    \/ v.t = "float" /\ v.f.k = "fin" /\ v.f.n = 1 /\ v.f.d = 1

\* Mutant: the reference is ignored, the value is never negated.
SignedIgnoringRef(outcome, negate) == outcome

\* if lat is not None: negate it when the reference says so.
Signed(outcome, negate) ==
    IF outcome.kind = "return" /\ outcome.val.k # "none" /\ negate
    THEN Ret(FNeg(outcome.val), "")
    ELSE outcome

\* One of latitude, longitude, altitude: absent when the key is not in the
\* dictionary or the conversion gave None, negated when the reference says so.
GpsField(d, key, negate) ==
    IF key \notin DOMAIN d THEN Ret(NoneF, "")
    ELSE Signed(convert_coordinate(d[key]), negate)

GpsResult(lat, lon, alt) ==
    CASE lat.kind = "raise" -> [kind |-> "raise", latitude |-> NoneF,
                                longitude |-> NoneF, altitude |-> NoneF,
                                exc |-> lat.info]
      [] lon.kind = "raise" -> [kind |-> "raise", latitude |-> NoneF,
                                longitude |-> NoneF, altitude |-> NoneF,
                                exc |-> lon.info]
      [] alt.kind = "raise" -> [kind |-> "raise", latitude |-> NoneF,
                                longitude |-> NoneF, altitude |-> NoneF,
                                exc |-> alt.info]
      [] OTHER -> [kind |-> "return", latitude |-> lat.val,
                   longitude |-> lon.val, altitude |-> alt.val, exc |-> ""]

ConvertGpsToDecimal(gps_info) ==
    GpsResult(
        GpsField(gps_info, "GPSLatitude",
                 PyEqText(DictGet(gps_info, "GPSLatitudeRef"), "S")),
        GpsField(gps_info, "GPSLongitude",
                 PyEqText(DictGet(gps_info, "GPSLongitudeRef"), "W")),
        GpsField(gps_info, "GPSAltitude",
                 PyEqOne(DictGet(gps_info, "GPSAltitudeRef"))))

(***************************************************************************)
(* GPSExtractor.extract_gps_info                                           *)
(***************************************************************************)
GpsNone ==
    [kind |-> "return", isNone |-> TRUE, coordinates |-> <<>>,
     decimal |-> FALSE, exc |-> ""]

\* gps_data, with decimal_coordinates and map_links when both latitude and
\* longitude were converted.
GpsData(coordinates) ==
    IF coordinates.kind = "raise"
    THEN [kind |-> "raise", isNone |-> FALSE, coordinates |-> <<>>,
          decimal |-> FALSE, exc |-> coordinates.exc]
    ELSE [kind |-> "return", isNone |-> FALSE, coordinates |-> coordinates,
          decimal |-> coordinates.latitude.k # "none"
                        /\ coordinates.longitude.k # "none",
          exc |-> ""]

ExtractGpsInfo(gps_value) ==
    CASE ~PyTruthy(gps_value) -> GpsNone
      [] ~IsMap(gps_value) ->
           [kind |-> "raise", isNone |-> FALSE, coordinates |-> <<>>,
            decimal |-> FALSE, exc |-> "AttributeError"]
      [] OTHER -> GpsData(ConvertGpsToDecimal(AsDict(gps_value)))

(***************************************************************************)
(* ExifValueConverter.decode_flash_value, decode_metering_mode,            *)
(* decode_white_balance and CameraSettingsExtractor.extract_exposure_info. *)
(* A decoded value is the name of a table code, the text                   *)
(* "Unknown mode (<value>)" that shows the float it was given, the text    *)
(* "Unknown", or the raw value left as it is.                              *)
(***************************************************************************)
Decoded(form, code, shown) ==
    [kind |-> "return", form |-> form, code |-> code, shown |-> shown, exc |-> ""]
DecodeRaised(exc) ==
    [kind |-> "raise", form |-> "", code |-> 0, shown |-> NoneF, exc |-> exc]
NotDecoded == Decoded("absent", 0, NoneF)

flash_modes ==
    {0, 1, 5, 7, 9, 13, 15, 16, 24, 25, 29, 31, 32, 65, 69, 71, 73, 77, 79, 89,
     93, 95}
metering_modes == (0..6) \cup {255}
wb_modes == (0..11) \cup (17..30)

\* modes.get(int(value), f"Unknown mode ({value})"): asInt is int(value).
ModeOf(modes, asInt, value) ==
    CASE asInt.kind = "raise" -> DecodeRaised(asInt.info)
      [] asInt.val.n \in modes -> Decoded("name", asInt.val.n, NoneF)
      [] OTHER -> Decoded("unknown", 0, value)

DecodeMode(modes, value) ==
    IF value.k = "none" THEN Decoded("Unknown", 0, NoneF)
    ELSE ModeOf(modes, PyIntOfFloat(value), value)

decode_flash_value(flash_value) == DecodeMode(flash_modes, flash_value)
decode_metering_mode(mode_value) == DecodeMode(metering_modes, mode_value)
decode_white_balance(wb_value) == DecodeMode(wb_modes, wb_value)

exposure_fields ==
    <<"ExposureMode", "ExposureProgram", "ExposureBiasValue", "MeteringMode",
      "LightSource", "Flash", "WhiteBalance", "SceneCaptureType", "GainControl",
      "Contrast", "Saturation", "Sharpness">>

\* decoded_value for a tag whose numeric value is numeric_value.
DecodedValue(tag, numeric_value) ==
    CASE numeric_value.k = "none" -> Decoded("raw", 0, NoneF)
      [] tag = "Flash" -> decode_flash_value(numeric_value)
      [] tag = "MeteringMode" -> decode_metering_mode(numeric_value)
      [] tag = "WhiteBalance" -> decode_white_balance(numeric_value)
      [] OTHER -> Decoded("raw", 0, numeric_value)

ExposureField(exif_data, tag) ==
    IF tag \notin DOMAIN exif_data THEN NotDecoded
    ELSE DecodedValue(tag, ToFloat(exif_data[tag]).val)

\* The exception of the first element of a sequence of outcomes that raised,
\* "" when none did.
FirstRaised(outcomes) ==
    IF \A j \in 1..Len(outcomes) : outcomes[j].kind # "raise" THEN ""
    ELSE outcomes[CHOOSE j \in 1..Len(outcomes) :
                    /\ outcomes[j].kind = "raise"
                    /\ \A h \in 1..(j - 1) : outcomes[h].kind # "raise"].exc

\* The fields are decoded in the order of exposure_fields; the first
\* exception leaves the method.
FieldsOutcome(fields, exc) ==
    IF exc # "" THEN RaiseX(exc) ELSE ReturnX(fields)

ExposureOutcome(fields) == FieldsOutcome(fields, FirstRaised(fields))

ExtractExposureInfo(exif_data) ==
    ExposureOutcome([j \in 1..Len(exposure_fields) |->
                       ExposureField(exif_data, exposure_fields[j])])

(***************************************************************************)
(* ExifValueConverter.format_datetime and                                  *)
(* CameraSettingsExtractor.extract_additional_info.                        *)
(***************************************************************************)
AllDigits10 == {"0", "1", "2", "3", "4", "5", "6", "7", "8", "9"}

Digit10(c) ==
    CASE c = "0" -> 0 [] c = "1" -> 1 [] c = "2" -> 2 [] c = "3" -> 3
      [] c = "4" -> 4 [] c = "5" -> 5 [] c = "6" -> 6 [] c = "7" -> 7
      [] c = "8" -> 8 [] c = "9" -> 9 [] OTHER -> 0

\* The character of a decimal digit.
Digit10Char(n) ==
    CASE n = 0 -> "0" [] n = 1 -> "1" [] n = 2 -> "2" [] n = 3 -> "3"
      [] n = 4 -> "4" [] n = 5 -> "5" [] n = 6 -> "6" [] n = 7 -> "7"
      [] n = 8 -> "8" [] OTHER -> "9"

RECURSIVE Number10(_)
Number10(s) ==
    IF s = <<>> THEN 0
    ELSE 10 * Number10(SubSeq(s, 1, Len(s) - 1)) + Digit10(s[Len(s)])

IsNumeral(s) == Len(s) > 0 /\ \A j \in 1..Len(s) : s[j] \in AllDigits10

IsLeap(y) == y % 4 = 0 /\ (y % 100 # 0 \/ y % 400 = 0)

DaysIn(y, m) ==
    CASE m \in {4, 6, 9, 11} -> 30
      [] m = 2 -> IF IsLeap(y) THEN 29 ELSE 28
      [] OTHER -> 31

\* %d also matches a space followed by one digit other than 0.
IsDayNumeral(s) ==
    \/ IsNumeral(s)
    \/ Len(s) = 2 /\ s[1] = " " /\ s[2] \in AllDigits10 \ {"0"}

\* The ways a text splits as YYYY<sep>m<sep>d<spaces>H:M:S, each of m, d, H, M,
\* S of one or two digits, with at least one space in the middle.
Splits(s, sep) ==
    {f \in [lm : 1..2, ld : 1..2, ws : 1..Len(s), lH : 1..2, lM : 1..2, lS : 1..2] :
        LET pm == 6
            pd == pm + f.lm + 1
            pw == pd + f.ld
            pH == pw + f.ws
            pM == pH + f.lH + 1
            pS == pM + f.lM + 1
        IN  /\ Len(s) = pS + f.lS - 1
            /\ IsNumeral(SubSeq(s, 1, 4))
            /\ s[5] = sep
            /\ IsNumeral(SubSeq(s, pm, pd - 2))
            /\ s[pd - 1] = sep
            /\ IsDayNumeral(SubSeq(s, pd, pw - 1))
            /\ \A j \in pw..(pH - 1) : s[j] = " "
            /\ IsNumeral(SubSeq(s, pH, pM - 2))
            /\ s[pM - 1] = ":"
            /\ IsNumeral(SubSeq(s, pM, pS - 2))
            /\ s[pS - 1] = ":"
            /\ IsNumeral(SubSeq(s, pS, Len(s)))}

\* The date and time a split denotes.
DateOf(s, f) ==
    LET pd == 7 + f.lm
        pH == pd + f.ld + f.ws
        pM == pH + f.lH + 1
        pS == pM + f.lM + 1
    IN  [Y |-> Number10(SubSeq(s, 1, 4)),
         m |-> Number10(SubSeq(s, 6, pd - 2)),
         d |-> Number10(SubSeq(s, pd, pd + f.ld - 1)),
         H |-> Number10(SubSeq(s, pH, pM - 2)),
         M |-> Number10(SubSeq(s, pM, pS - 2)),
         S |-> Number10(SubSeq(s, pS, Len(s)))]

IsDate(dt) ==
    /\ dt.Y >= 1
    /\ dt.m \in 1..12
    /\ dt.d >= 1 /\ dt.d <= DaysIn(dt.Y, dt.m)
    /\ dt.H <= 23 /\ dt.M <= 59 /\ dt.S <= 59

\* datetime.strptime(text, "%Y<sep>%m<sep>%d %H:%M:%S"): the dates the text
\* denotes (one at most); none is a ValueError.
Strptime(s, sep) == {dt \in {DateOf(s, f) : f \in Splits(s, sep)} : IsDate(dt)}

NoDate == [Y |-> 0, m |-> 0, d |-> 0, H |-> 0, M |-> 0, S |-> 0]

\* A formatted field: its form, the instant when it is a date, the text when
\* it is no date, and the raw value stored next to it.
Formatted(form, dt) ==
    [kind |-> "return", form |-> form, dt |-> dt, exc |-> "", text |-> <<>>,
     raw |-> RNone]
FormatRaised(exc) ==
    [kind |-> "raise", form |-> "", dt |-> NoDate, exc |-> exc, text |-> <<>>,
     raw |-> RNone]
NotFormatted == Formatted("absent", NoDate)

\* Mutant: the alternative format is not tried.
FormatParsedNoFallback(exifDates, otherDates) ==
    IF exifDates # {} THEN Formatted("date", CHOOSE dt \in exifDates : TRUE)
    ELSE Formatted("Invalid format", NoDate)

\* The text is parsed in the EXIF format, then in the alternative format.
FormatParsed(exifDates, otherDates) ==
    CASE exifDates # {} -> Formatted("date", CHOOSE dt \in exifDates : TRUE)
      [] otherDates # {} -> Formatted("date", CHOOSE dt \in otherDates : TRUE)
      [] OTHER -> Formatted("Invalid format", NoDate)

\* strptime of a value that is not a text is a TypeError, which the except
\* ValueError clauses do not catch.
\* return f"Invalid format: {dt_string}"
WithOriginal(result, dt_string) ==
    IF result.form = "Invalid format"
    THEN [result EXCEPT !.text = <<"Invalid format: ">> \o dt_string.s]
    ELSE result

format_datetime(dt_string) ==
    CASE ~PyTruthy(dt_string) ->
           [Formatted("Unknown", NoDate) EXCEPT !.text = <<"Unknown">>]
      [] dt_string.t # "str" -> FormatRaised("TypeError")
      [] OTHER ->
           WithOriginal(FormatParsed(Strptime(dt_string.s, ":"),
                                     Strptime(dt_string.s, "-")), dt_string)

text_fields ==
    <<"Make", "Model", "LensModel", "LensMake", "Software", "DateTime",
      "DateTimeOriginal", "DateTimeDigitized", "Artist", "Copyright",
      "ImageDescription">>

DateTimeTags == {"DateTime", "DateTimeOriginal", "DateTimeDigitized"}

\* results[tag] = {'raw': value, 'formatted': formatted_value}
Kept(formatted_value, value) ==
    IF formatted_value.kind = "raise" THEN formatted_value
    ELSE [formatted_value EXCEPT !.raw = value]

AdditionalField(exif_data, tag) ==
    CASE tag \notin DOMAIN exif_data -> NotFormatted
      [] tag \in DateTimeTags -> Kept(format_datetime(exif_data[tag]), exif_data[tag])
      [] OTHER -> Kept(Formatted("raw", NoDate), exif_data[tag])

AdditionalOutcome(fields) == FieldsOutcome(fields, FirstRaised(fields))

ExtractAdditionalInfo(exif_data) ==
    AdditionalOutcome([j \in 1..Len(text_fields) |->
                         AdditionalField(exif_data, text_fields[j])])

(***************************************************************************)
(* ExifAnalyzer.analyze_camera_settings and analyze_image.                 *)
(***************************************************************************)
\* The six extractors run in order; the first exception leaves the method.
CameraOutcome(aperture, shutter_speed, iso, focal_length, exposure_info, additional_info) ==
    CASE iso.kind = "raise" -> RaiseX(iso.exc)
      [] exposure_info.kind = "raise" -> RaiseX(exposure_info.exc)
      [] additional_info.kind = "raise" -> RaiseX(additional_info.exc)
      [] OTHER ->
           ReturnX([aperture |-> aperture.res,
                    shutter_speed |-> shutter_speed.res,
                    iso |-> iso.res,
                    focal_length |-> focal_length.res,
                    exposure_info |-> exposure_info.res,
                    additional_info |-> additional_info.res])

AnalyzeCameraSettings(exif_data) ==
    CameraOutcome(ExtractAperture(exif_data), ExtractShutterSpeed(exif_data),
                  ExtractIso(exif_data), ExtractFocalLength(exif_data),
                  ExtractExposureInfo(exif_data),
                  ExtractAdditionalInfo(exif_data))

\* What analyze_image returns: None, the record of an image without EXIF, or
\* the full record.
NoneResult(why) ==
    [kind |-> "none", has_exif |-> FALSE, camera_analysis |-> <<>>,
     gps_data |-> GpsNone, why |-> why]
NoExifRecord ==
    [kind |-> "record", has_exif |-> FALSE, camera_analysis |-> <<>>,
     gps_data |-> GpsNone, why |-> ""]
FullRecord(camera_analysis, gps_data) ==
    [kind |-> "record", has_exif |-> TRUE, camera_analysis |-> camera_analysis,
     gps_data |-> gps_data, why |-> ""]

\* gps_data stays None when the EXIF has no GPSInfo tag.
GpsOfExif(readable_exif) ==
    IF "GPSInfo" \in DOMAIN readable_exif
    THEN ExtractGpsInfo(readable_exif["GPSInfo"])
    ELSE GpsNone

\* Mutant: no try/except around the body, an exception leaves analyze_image.
RecordUncaught(camera, gps) ==
    CASE camera.kind = "raise" -> [NoneResult(camera.exc) EXCEPT !.kind = "raise"]
      [] gps.kind = "raise" -> [NoneResult(gps.exc) EXCEPT !.kind = "raise"]
      [] OTHER -> FullRecord(camera.res, gps)

\* The body of the try block after the EXIF was read; except Exception:
\* return None.
RecordOrNone(camera, gps) ==
    CASE camera.kind = "raise" -> NoneResult(camera.exc)
      [] gps.kind = "raise" -> NoneResult(gps.exc)
      [] OTHER -> FullRecord(camera.res, gps)

\* An image file: whether the path exists, whether Image.open succeeds, and
\* the EXIF dictionary (tag names to raw values) that getexif gives.
ImageFile(exists, opens, exif) == [exists |-> exists, opens |-> opens, exif |-> exif]

\* The EXIF of an image that holds none.
NoExif == [t \in {} |-> RNone]

AnalyzeImage(file) ==
    CASE ~file.exists -> NoneResult("File not found")
      [] ~file.opens -> NoneResult("UnidentifiedImageError")
      [] DOMAIN file.exif = {} -> NoExifRecord
      [] OTHER -> RecordOrNone(AnalyzeCameraSettings(file.exif), GpsOfExif(file.exif))

(***************************************************************************)
(* PhotoMetadataAnalyzer.convert_gps_to_decimal                            *)
(***************************************************************************)
\* float(value[j])
FloatOfSubscript(sub) ==
    IF sub.kind = "raise" THEN Raise(sub.exc) ELSE PyFloat(sub.v)

\* d, m, s = float(value[0]), float(value[1]), float(value[2]);
\* return d + (m / 60.0) + (s / 3600.0)
convert_to_degrees(value) ==
    DmsSum(FloatOfSubscript(PySubscript(value, 0)),
           FloatOfSubscript(PySubscript(value, 1)),
           FloatOfSubscript(PySubscript(value, 2)))

\* The pair (lat, lon), or the first exception.
LatLon(lat, lon) ==
    CASE lat.kind = "raise" -> [kind |-> "raise", lat |-> NoneF, lon |-> NoneF,
                                exc |-> lat.info]
      [] lon.kind = "raise" -> [kind |-> "raise", lat |-> NoneF, lon |-> NoneF,
                                exc |-> lon.info]
      [] OTHER -> [kind |-> "return", lat |-> lat.val, lon |-> lon.val, exc |-> ""]

NoLatLon == [kind |-> "return", lat |-> NoneF, lon |-> NoneF, exc |-> ""]

Analyzer_convert_gps_to_decimal(gps_info) ==
    IF "GPSLatitude" \notin DOMAIN gps_info \/ "GPSLongitude" \notin DOMAIN gps_info
    THEN NoLatLon
    ELSE LatLon(Signed(convert_to_degrees(gps_info["GPSLatitude"]),
                       PyEqText(DictGet(gps_info, "GPSLatitudeRef"), "S")),
                Signed(convert_to_degrees(gps_info["GPSLongitude"]),
                       PyEqText(DictGet(gps_info, "GPSLongitudeRef"), "W")))

(***************************************************************************)
(* The images explored.  Three families: files that do not exist, do not   *)
(* open or hold no EXIF; a well-formed EXIF dictionary in which up to      *)
(* MaxOddTags tags are removed or replaced by an odd value; a well-formed  *)
(* EXIF dictionary with a GPSInfo drawn from a family of GPS dictionaries. *)
(***************************************************************************)
MaxOddTags == 2    \* tags of an EXIF dictionary that are replaced or removed
MaxGpsNum == 1     \* degrees, minutes, seconds and their parts are 0..MaxGpsNum

\* Not a value: the tag is left out of the dictionary.
Absent == RawValue("absent", 0, NoneF, <<>>, <<>>)

Present(entries) == SelectSeq(entries, LAMBDA en : en.e[1] # Absent)

GpsMap(lat, latRef, lon, lonRef, alt, altRef) ==
    RMap(Present(<<Entry("GPSLatitude", lat), Entry("GPSLatitudeRef", latRef),
                   Entry("GPSLongitude", lon), Entry("GPSLongitudeRef", lonRef),
                   Entry("GPSAltitude", alt), Entry("GPSAltitudeRef", altRef)>>))

GpsComponents ==
    {RInt(a) : a \in 0..MaxGpsNum}
    \cup {RSeq(<<RInt(a), RInt(b)>>) : a, b \in 0..MaxGpsNum}
    \cup {RSeq(<<RInt(1)>>), RStr(<<"1", "2">>), RFloat(Inf(1))}

Coordinates ==
    {RSeq(<<a, b, c>>) : a, b, c \in GpsComponents}
    \cup {RNone, RInt(1), RFloat(Fin(3, 2)), RStr(<<"1", ".", "2">>),
          RStr(<<"a">>), RSeq(<<RInt(1), RInt(1)>>), ROther,
          RSeq(<<RInt(1), RInt(1), RInt(0), RInt(1)>>)}

GoodLatitude == RSeq(<<RInt(37), RInt(48), RInt(0)>>)
GoodLongitude ==
    RSeq(<<RSeq(<<RInt(122), RInt(1)>>), RSeq(<<RInt(30), RInt(1)>>),
           RSeq(<<RInt(0), RInt(1)>>)>>)

FewLatitudes ==
    {Absent, GoodLatitude, RStr(<<"a">>),
     RSeq(<<RSeq(<<RInt(37)>>), RSeq(<<RInt(48), RInt(1)>>), RSeq(<<RInt(0), RInt(1)>>)>>)}
PlainLongitude == RSeq(<<RInt(122), RInt(30), RInt(0)>>)
FewLongitudes ==
    {Absent, GoodLongitude, PlainLongitude, RSeq(<<RInt(1), RInt(1)>>),
     RSeq(<<RSeq(<<>>), RInt(30), RInt(0)>>)}

Altitudes ==
    {Absent, RNone, RInt(5), RFloat(Fin(5, 2)), RSeq(<<RInt(5), RInt(1)>>)}
AltitudeRefs == {Absent, RInt(0), RInt(1), RBytes(<<"x01">>), RFloat(Fin(1, 1))}

\* A GPSInfo tag holds a dictionary, or (when the library does not resolve the
\* GPS directory) its integer offset, or something else.
OtherGpsValues == {RNone, RInt(0), RInt(1234), RStr(<<"a">>), ROther, RMap(<<>>)}

GoodGps ==
    GpsMap(GoodLatitude, RStr(<<"N">>), GoodLongitude, RStr(<<"W">>),
           RSeq(<<RInt(5), RInt(1)>>), RInt(0))

GoodDateTime ==
    RStr(<<"2", "0", "2", "3", ":", "0", "1", ":", "1", "5", " ",
           "1", "0", ":", "3", "0", ":", "0", "0">>)
HyphenDateTime ==
    RStr(<<"2", "0", "2", "4", "-", "2", "-", "2", "9", " ",
           "7", ":", "0", "5", ":", "5", "9">>)

BaseExif ==
    [t \in {"Make", "FNumber", "ExposureTime", "ISOSpeedRatings", "FocalLength",
            "Flash", "MeteringMode", "WhiteBalance", "DateTime", "GPSInfo"} |->
        CASE t = "Make" -> RStr(<<"C", "a", "n", "o", "n">>)
          [] t = "FNumber" -> RSeq(<<RInt(28), RInt(10)>>)
          [] t = "ExposureTime" -> RSeq(<<RInt(1), RInt(100)>>)
          [] t = "ISOSpeedRatings" -> RInt(100)
          [] t = "FocalLength" -> RSeq(<<RInt(50), RInt(1)>>)
          [] t = "Flash" -> RInt(1)
          [] t = "MeteringMode" -> RInt(5)
          [] t = "WhiteBalance" -> RInt(0)
          [] t = "DateTime" -> GoodDateTime
          [] OTHER -> GoodGps]

OddTags ==
    {"FNumber", "ISOSpeedRatings", "Flash", "MeteringMode", "WhiteBalance",
     "DateTime", "GPSInfo"}

\* A text in the colon form that names no date (month 13).
BadDateTime ==
    RStr(<<"2", "0", "2", "3", ":", "1", "3", ":", "1", "5", " ",
           "1", "0", ":", "3", "0", ":", "0", "0">>)

OddValues ==
    {Absent, RNone, RInt(200), RFloat(Inf(1)), RStr(<<"a">>), RStr(<<>>),
     RBytes(<<"1">>), RSeq(<<RInt(1), RInt(0)>>), HyphenDateTime, BadDateTime}

\* The dictionary base with the tags of odd replaced or removed.
Override(base, odd) ==
    [t \in {u \in DOMAIN base : u \notin DOMAIN odd \/ odd[u] # Absent} |->
        IF t \in DOMAIN odd THEN odd[t] ELSE base[t]]

OddTagSets == {T \in SUBSET OddTags : Cardinality(T) <= MaxOddTags}

PlainImages ==
    {ImageFile(FALSE, FALSE, NoExif), ImageFile(TRUE, FALSE, NoExif),
     ImageFile(TRUE, TRUE, NoExif)}

OddImage(odd) == ImageFile(TRUE, TRUE, Override(BaseExif, odd))
GpsImage(gps_value) == OddImage("GPSInfo" :> gps_value)

\* The image is one of the three families; the GPS dictionaries vary the
\* latitude with its reference, the longitude with its reference, or the
\* altitude with its reference and the references of the other two.
DrawImage ==
    \/ image \in PlainImages
    \/ \E T \in OddTagSets : \E odd \in [T -> OddValues] : image = OddImage(odd)
    \/ \E g \in OtherGpsValues : image = GpsImage(g)
    \/ \E lat \in Coordinates, latRef \in {RStr(<<"N">>), RStr(<<"S">>)},
          lon \in {Absent, GoodLongitude} :
          image = GpsImage(GpsMap(lat, latRef, lon, Absent, Absent, Absent))
    \/ \E lat \in {Absent, GoodLatitude}, lon \in Coordinates,
          lonRef \in {RStr(<<"E">>), RStr(<<"W">>)} :
          image = GpsImage(GpsMap(lat, Absent, lon, lonRef, Absent, Absent))
    \/ \E lat \in FewLatitudes, latRef \in {Absent, RStr(<<"N">>), RStr(<<"S">>)},
          lon \in FewLongitudes, lonRef \in {Absent, RStr(<<"E">>), RStr(<<"W">>)},
          alt \in Altitudes, altRef \in AltitudeRefs :
          image = GpsImage(GpsMap(lat, latRef, lon, lonRef, alt, altRef))

(***************************************************************************)
(* Analysis: one image is drawn and analyze_image, or one of the           *)
(* GPSExtractor methods on its GPSInfo, is applied to it.                  *)
(***************************************************************************)
NoGpsOut == [kind |-> "pending"]
NoAnOut == [kind |-> "pending"]

HasGpsInfo(file) == file.exists /\ file.opens /\ "GPSInfo" \in DOMAIN file.exif

AnalyzeInit ==
    /\ DrawImage
    /\ apc = "input"
    /\ gpsOut = NoGpsOut
    /\ anOut = NoAnOut
    /\ ConvIdle
    /\ BatchIdle
    /\ CliIdle
    /\ ReportIdle
    /\ StagingIdle
    /\ MonitorIdle

CallAnalyzeImage ==
    /\ apc = "input"
    /\ apc' = "analyze_image"
    /\ anOut' = AnalyzeImage(image)
    /\ UNCHANGED <<image, gpsOut>>
    /\ UNCHANGED analyzeRest

CallExtractGpsInfo ==
    /\ apc = "input"
    /\ HasGpsInfo(image)
    /\ apc' = "extract_gps_info"
    /\ gpsOut' = ExtractGpsInfo(image.exif["GPSInfo"])
    /\ UNCHANGED <<image, anOut>>
    /\ UNCHANGED analyzeRest

CallConvertGpsToDecimal ==
    /\ apc = "input"
    /\ HasGpsInfo(image)
    /\ IsMap(image.exif["GPSInfo"])
    /\ apc' = "convert_gps_to_decimal"
    /\ gpsOut' = ConvertGpsToDecimal(AsDict(image.exif["GPSInfo"]))
    /\ UNCHANGED <<image, anOut>>
    /\ UNCHANGED analyzeRest

\* PhotoMetadataAnalyzer.convert_gps_to_decimal on the GPS dictionary of the
\* image, as process_photo_directory calls it.
CallAnalyzerConvertGps ==
    /\ apc = "input"
    /\ HasGpsInfo(image)
    /\ IsMap(image.exif["GPSInfo"])
    /\ apc' = "analyzer_convert_gps_to_decimal"
    /\ gpsOut' = Analyzer_convert_gps_to_decimal(AsDict(image.exif["GPSInfo"]))
    /\ UNCHANGED <<image, anOut>>
    /\ UNCHANGED analyzeRest

AnalyzeNext ==
    \/ CallAnalyzeImage
    \/ CallExtractGpsInfo
    \/ CallConvertGpsToDecimal
    \/ CallAnalyzerConvertGps

SpecAnalyze == AnalyzeInit /\ [][AnalyzeNext]_vars

(***************************************************************************)
(* PhotoMetadataAnalyzer.extract_exif_data                                 *)
(***************************************************************************)
\* What extract_exif_data returns: None or the readable dictionary.
ExifNone == [kind |-> "return", none |-> TRUE, exif |-> NoExif, exc |-> ""]
ExifDict(exif) == [kind |-> "return", none |-> FALSE, exif |-> exif, exc |-> ""]
ExifRaised(exc) == [kind |-> "raise", none |-> FALSE, exif |-> NoExif, exc |-> exc]

\* The try block: Image.open fails on a file that is no image, and
\* value.items() fails on a GPSInfo that is not a mapping.
ExifTry(file) ==
    CASE ~file.opens -> ExifRaised("UnidentifiedImageError")
      [] DOMAIN file.exif = {} -> ExifNone
      [] "GPSInfo" \in DOMAIN file.exif /\ ~IsMap(file.exif["GPSInfo"]) ->
           ExifRaised("AttributeError")
      [] OTHER -> ExifDict(file.exif)

\* Mutant: no except clause, the exception leaves extract_exif_data.
ExifExceptMissing(outcome) == outcome

\* except Exception: return None
ExifExcept(outcome) == IF outcome.kind = "raise" THEN ExifNone ELSE outcome

ExtractExifData(file) == ExifExcept(ExifTry(file))

(***************************************************************************)
(* PhotoMetadataAnalyzer.parse_camera_settings                             *)
(***************************************************************************)
\* f"{value:.1f}": the number shown, TypeError or ValueError for a value that
\* has no fixed-point format.
PyFormatFixed(v) ==
    CASE IsNumber(v) -> PyFloat(v)
      [] v.t = "str" -> Raise("ValueError")
      [] OTHER -> Raise("TypeError")

\* value / 2, value < 1, 1 / value: TypeError unless the value is a number.
NumberOrTypeError(v) == IF IsNumber(v) THEN PyFloat(v) ELSE Raise("TypeError")

\* 2 ** (value / 2)
ApexOfNumber(x) ==
    IF x.kind = "raise" THEN x ELSE PyPow2(FloatDivide(x.val, Fin(2, 1)))

ApertureSetting(exif_data) ==
    CASE "FNumber" \in DOMAIN exif_data -> PyFormatFixed(exif_data["FNumber"])
      [] "ApertureValue" \in DOMAIN exif_data ->
           ApexOfNumber(NumberOrTypeError(exif_data["ApertureValue"]))
      [] OTHER -> Ret(NoneF, "absent")

\* exp_time < 1 for a float: false of NaN and of +infinity.
LessThanOne(x) ==
    CASE x.k = "nan" -> FALSE
      [] x.k = "inf" -> x.n < 0
      [] OTHER -> x.n < x.d

\* int(1 / exp_time) for exp_time < 1.
ReciprocalInt(x) ==
    CASE IsZero(x) -> Raise("ZeroDivisionError")
      [] x.k = "inf" -> Ret(Fin(0, 1), "1/N")
      [] OTHER -> Ret(PyIntOfFloat(Fin(x.d, x.n)).val, "1/N")

\* "1/N" with N = int(1 / exp_time) when exp_time < 1, else "<exp_time>s".
ShutterText(x) ==
    CASE x.kind = "raise" -> x
      [] LessThanOne(x.val) -> ReciprocalInt(x.val)
      [] OTHER -> Ret(x.val, "s")

ShutterSetting(exif_data) ==
    IF "ExposureTime" \in DOMAIN exif_data
    THEN ShutterText(NumberOrTypeError(exif_data["ExposureTime"]))
    ELSE Ret(NoneF, "absent")

IsoSetting(exif_data) ==
    CASE "ISOSpeedRatings" \in DOMAIN exif_data -> exif_data["ISOSpeedRatings"]
      [] "ISO" \in DOMAIN exif_data -> exif_data["ISO"]
      [] OTHER -> Absent

\* exif_data.get(key, 'Unknown')
Unknown == RStr(<<"Unknown">>)
GetOrUnknown(exif_data, key) ==
    IF key \in DOMAIN exif_data THEN exif_data[key] ELSE Unknown

\* try: strptime(...) except: None.
DateOrNone(dates) ==
    IF dates = {} THEN Formatted("None", NoDate)
    ELSE Formatted("date", CHOOSE dt \in dates : TRUE)

DateTimeSetting(exif_data) ==
    CASE "DateTime" \notin DOMAIN exif_data -> NotFormatted
      [] exif_data["DateTime"].t # "str" -> Formatted("None", NoDate)
      [] OTHER -> DateOrNone(Strptime(exif_data["DateTime"].s, ":"))

\* The settings, or the exception of the first field that raised.
Settings(exif_data, aperture, shutter_speed) ==
    CASE aperture.kind = "raise" -> [kind |-> "raise", exc |-> aperture.info]
      [] shutter_speed.kind = "raise" -> [kind |-> "raise", exc |-> shutter_speed.info]
      [] OTHER ->
           [kind |-> "return", exc |-> "",
            aperture |-> aperture.val,
            shutter_speed |-> [form |-> shutter_speed.info, val |-> shutter_speed.val],
            iso |-> IsoSetting(exif_data),
            focal_length |-> DictGet(exif_data, "FocalLength"),
            camera |-> GetOrUnknown(exif_data, "Model"),
            make |-> GetOrUnknown(exif_data, "Make"),
            lens |-> GetOrUnknown(exif_data, "LensModel"),
            datetime |-> DateTimeSetting(exif_data)]

ParseCameraSettings(exif_data) ==
    Settings(exif_data, ApertureSetting(exif_data), ShutterSetting(exif_data))

(***************************************************************************)
(* ExifValueConverter.format_shutter_speed.  The text returned is          *)
(* "Unknown", "1/<n>" for an integer n, "<value>s" for the value as str()  *)
(* shows it, or "<value>s" with six decimals.                              *)
(***************************************************************************)
ShutterShown(form, n, shown) ==
    [kind |-> "return", form |-> form, n |-> n, shown |-> shown, exc |-> ""]
ShutterRaised(exc) ==
    [kind |-> "raise", form |-> "", n |-> 0, shown |-> RNone, exc |-> exc]

\* round(x) for the finite float n/d (d > 0): the nearest integer, the even
\* one of the two when x lies halfway.
PyRound(n, d) ==
    LET q == (2 * n + d) \div (2 * d)
    IN  IF (2 * n + d) % (2 * d) = 0 /\ q % 2 # 0 THEN q - 1 ELSE q

\* Mutant: the reciprocal is cut to its integer part instead of rounded.
ReciprocalTruncated(x) ==
    CASE IsZero(x) -> Raise("ZeroDivisionError")
      [] x.k = "inf" -> Ret(Fin(0, 1), "")
      [] OTHER -> Ret(Fin(Trunc(Fin(x.d, x.n).n, Fin(x.d, x.n).d), 1), "")

\* int(round(1 / time_seconds)) for a float below 1.
ReciprocalRounded(x) ==
    CASE IsZero(x) -> Raise("ZeroDivisionError")
      [] x.k = "inf" -> Ret(Fin(0, 1), "")
      [] OTHER -> Ret(Fin(PyRound(Fin(x.d, x.n).n, Fin(x.d, x.n).d), 1), "")

\* try: return f"1/{reciprocal}" except: return f"{time_seconds:.6f}s"
ReciprocalText(time_seconds, reciprocal) ==
    IF reciprocal.kind = "raise"
    THEN ShutterShown("fixed6", 0, time_seconds)
    ELSE ShutterShown("1/N", reciprocal.val.n, RNone)

\* The comparison time_seconds < 1 is a TypeError for a value that is not a
\* number.
format_shutter_speed(time_seconds) ==
    CASE time_seconds.t = "none" -> ShutterShown("Unknown", 0, RNone)
      [] ~IsNumber(time_seconds) -> ShutterRaised("TypeError")
      [] LessThanOne(PyFloat(time_seconds).val) ->
           ReciprocalText(time_seconds, ReciprocalRounded(PyFloat(time_seconds).val))
      [] OTHER -> ShutterShown("s", 0, time_seconds)

(***************************************************************************)
(* str() of a number, as a sequence of characters.                         *)
(***************************************************************************)
RECURSIVE NaturalText(_)
NaturalText(n) ==
    IF n < 10 THEN <<Digit10Char(n)>>
    ELSE NaturalText(n \div 10) \o <<Digit10Char(n % 10)>>

\* str(i) for an integer.
PyStrInt(i) == IF i < 0 THEN <<"-">> \o NaturalText(-i) ELSE NaturalText(i)

\* The digits after the point of m/10000, without trailing zeros (one digit at
\* least).
RECURSIVE FractionText(_, _)
FractionText(m, width) ==
    IF width = 1 \/ m % 10 # 0
    THEN [j \in 1..width |-> Digit10Char((m \div Pow(10, width - j)) % 10)]
    ELSE FractionText(m \div 10, width - 1)

\* str(x) for a float: always with a point ("200.0"), "inf", "nan".  Decimal
\* expansions of more than four places are left as the chunk "<float>".
PyStrFloat(x) ==
    CASE x.k = "nan" -> <<"n", "a", "n">>
      [] x.k = "inf" -> IF x.n < 0 THEN <<"-", "i", "n", "f">> ELSE <<"i", "n", "f">>
      [] x.k = "fin" /\ 10000 % x.d = 0 ->
           (IF x.n < 0 THEN <<"-">> ELSE <<>>)
           \o NaturalText(Abs(x.n) \div x.d) \o <<".">>
           \o FractionText(((Abs(x.n) % x.d) * 10000) \div x.d, 4)
      [] OTHER -> <<"<float>">>

\* f"Unknown mode ({value})" for the decoded record of an unknown code.
UnknownModeText(value) == <<"Unknown mode (">> \o PyStrFloat(value) \o <<")">>

(***************************************************************************)
(* Display: one raw value is drawn and format_shutter_speed,               *)
(* parse_camera_settings or extract_exposure_info is applied to it.        *)
(***************************************************************************)
SettingTags == {"FNumber", "ApertureValue", "ExposureTime"}
ModeTags == {"Flash", "MeteringMode", "WhiteBalance"}

CallFormatShutterSpeed ==
    /\ cpc = "input"
    /\ cpc' = "format_shutter_speed"
    /\ fmtOut' = format_shutter_speed(raw)
    /\ UNCHANGED <<raw, tfOut, exOut, setOut>>
    /\ UNCHANGED convRest

CallParseCameraSettings ==
    /\ cpc = "input"
    /\ \E tag \in SettingTags :
         setOut' = [tag |-> tag, out |-> ParseCameraSettings(tag :> raw)]
    /\ cpc' = "parse_camera_settings"
    /\ UNCHANGED <<raw, tfOut, exOut, fmtOut>>
    /\ UNCHANGED convRest

CallExtractExposureInfo ==
    /\ cpc = "input"
    /\ \E tag \in ModeTags :
         exOut' = WithTag(ExtractExposureInfo(tag :> raw), tag)
    /\ cpc' = "extract_exposure_info"
    /\ UNCHANGED <<raw, tfOut, fmtOut, setOut>>
    /\ UNCHANGED convRest

DisplayNext ==
    \/ CallExtractAperture
    \/ CallFormatShutterSpeed
    \/ CallParseCameraSettings
    \/ CallExtractExposureInfo

SpecDisplay == ConvInit /\ [][DisplayNext]_vars

(***************************************************************************)
(* PhotoMetadataAnalyzer.process_photo_directory.  A file of the directory *)
(* has an extension, lies at the top or in a subdirectory, and has a       *)
(* content; a record names its file by the position in the directory.      *)
(***************************************************************************)
MaxFiles == 4        \* files of a directory whose contents vary
MaxMalformed == 1    \* files of such a directory that hold a malformed field
MaxNamedFiles == 2   \* files of a directory whose names vary

FileEntry(ext, nested, kind) == [ext |-> ext, nested |-> nested, kind |-> kind]

GoodBatchExif ==
    [t \in {"Make", "Model", "LensModel", "FNumber", "ExposureTime",
            "ISOSpeedRatings", "FocalLength", "DateTime", "GPSInfo"} |->
        CASE t = "Make" -> RStr(<<"C", "a", "n", "o", "n">>)
          [] t = "Model" -> RStr(<<"E", "O", "S">>)
          [] t = "LensModel" -> RStr(<<"5", "0", "m", "m">>)
          [] t = "FNumber" -> RFloat(Fin(14, 5))
          [] t = "ExposureTime" -> RFloat(Fin(1, 100))
          [] t = "ISOSpeedRatings" -> RInt(100)
          [] t = "FocalLength" -> RFloat(Fin(50, 1))
          [] t = "DateTime" -> GoodDateTime
          [] OTHER -> GpsMap(GoodLatitude, RStr(<<"N">>),
                             RSeq(<<RInt(122), RInt(30), RInt(0)>>), RStr(<<"W">>),
                             Absent, Absent)]

GpsWithLatitude(lat) ==
    GpsMap(lat, RStr(<<"N">>), RSeq(<<RInt(122), RInt(30), RInt(0)>>),
           RStr(<<"W">>), Absent, Absent)

ValidKinds == {"good", "good_no_gps"}
BadFileKinds == {"corrupt", "no_exif"}
MalformedKinds ==
    {"fnumber_pair", "exposure_zero", "exposure_pair", "gps_short", "gps_pairs",
     "gps_offset"}
FileKinds == ValidKinds \cup BadFileKinds \cup MalformedKinds

\* The content of a file of each kind.
ContentOf(kind) ==
    CASE kind = "corrupt" -> ImageFile(TRUE, FALSE, NoExif)
      [] kind = "no_exif" -> ImageFile(TRUE, TRUE, NoExif)
      [] kind = "good" -> ImageFile(TRUE, TRUE, GoodBatchExif)
      [] kind = "good_no_gps" ->
           ImageFile(TRUE, TRUE,
                     Override(GoodBatchExif, "GPSInfo" :> Absent @@ "DateTime" :> Absent))
      [] kind = "fnumber_pair" ->
           ImageFile(TRUE, TRUE,
                     Override(GoodBatchExif, "FNumber" :> RSeq(<<RInt(28), RInt(10)>>)))
      [] kind = "exposure_zero" ->
           ImageFile(TRUE, TRUE, Override(GoodBatchExif, "ExposureTime" :> RInt(0)))
      [] kind = "exposure_pair" ->
           ImageFile(TRUE, TRUE,
                     Override(GoodBatchExif, "ExposureTime" :> RSeq(<<RInt(1), RInt(100)>>)))
      [] kind = "gps_short" ->
           ImageFile(TRUE, TRUE,
                     Override(GoodBatchExif,
                              "GPSInfo" :> GpsWithLatitude(RSeq(<<RInt(37), RInt(48)>>))))
      [] kind = "gps_pairs" ->
           ImageFile(TRUE, TRUE,
                     Override(GoodBatchExif,
                              "GPSInfo" :> GpsWithLatitude(
                                  RSeq(<<RSeq(<<RInt(37), RInt(1)>>),
                                         RSeq(<<RInt(48), RInt(1)>>),
                                         RSeq(<<RInt(0), RInt(1)>>)>>))))
      [] OTHER -> ImageFile(TRUE, TRUE, Override(GoodBatchExif, "GPSInfo" :> RInt(1234)))

supported_formats == <<".jpg", ".jpeg", ".tiff", ".tif">>

\* ext.upper()
Upper(ext) ==
    CASE ext = ".jpg" -> ".JPG" [] ext = ".jpeg" -> ".JPEG"
      [] ext = ".tiff" -> ".TIFF" [] ext = ".tif" -> ".TIF" [] OTHER -> ext

Lower(ext) ==
    CASE ext \in {".JPG", ".Jpg"} -> ".jpg" [] ext = ".JPEG" -> ".jpeg"
      [] ext = ".TIFF" -> ".tiff" [] ext = ".TIF" -> ".tif" [] OTHER -> ext

\* Whether the pattern "*<ext>" matches a file: glob compares letters exactly
\* on POSIX and without regard to case on Windows; glob sees the files at the
\* top only, rglob all of them.
Matches(entry, ext, rec, plat) ==
    /\ rec \/ ~entry.nested
    /\ IF plat = "windows" THEN Lower(entry.ext) = Lower(ext) ELSE entry.ext = ext

\* directory.glob(f"*{ext}"), as positions in the directory.
Glob(dir, ext, rec, plat) ==
    SelectSeq([j \in 1..Len(dir) |-> j], LAMBDA j : Matches(dir[j], ext, rec, plat))

\* image_files after the formats k.. were handled: for each format the files
\* matching it, then the files matching its upper-case form.
RECURSIVE ExtendFrom(_, _, _, _)
ExtendFrom(k, dir, rec, plat) ==
    IF k > Len(supported_formats) THEN <<>>
    ELSE Glob(dir, supported_formats[k], rec, plat)
         \o Glob(dir, Upper(supported_formats[k]), rec, plat)
         \o ExtendFrom(k + 1, dir, rec, plat)

ImageFiles(dir, rec, plat) == ExtendFrom(1, dir, rec, plat)

\* exif_data.get('GPSInfo', {})
GpsInfoOf(exif_data) ==
    IF "GPSInfo" \in DOMAIN exif_data THEN AsDict(exif_data["GPSInfo"]) ELSE NoExif

\* The outcome of one iteration: a record, no record, or an exception.
FileSkipped == [kind |-> "skip", record |-> <<>>, exc |-> ""]
FileRaised(exc) == [kind |-> "raise", record |-> <<>>, exc |-> exc]

PhotoRecord(j, settings, latlon) ==
    CASE settings.kind = "raise" -> FileRaised(settings.exc)
      [] latlon.kind = "raise" -> FileRaised(latlon.exc)
      [] OTHER ->
           [kind |-> "record", exc |-> "",
            record |-> [file |-> j, latitude |-> latlon.lat,
                        longitude |-> latlon.lon, settings |-> settings]]

\* The body of the loop for the file at position j, whose EXIF was read as
\* exif_data.
LoopBody(j, exif_data) ==
    CASE exif_data.kind = "raise" -> FileRaised(exif_data.exc)
      [] exif_data.none -> FileSkipped
      [] OTHER ->
           PhotoRecord(j, ParseCameraSettings(exif_data.exif),
                       Analyzer_convert_gps_to_decimal(GpsInfoOf(exif_data.exif)))

ProcessFile(dir, j) == LoopBody(j, ExtractExifData(ContentOf(dir[j].kind)))

(***************************************************************************)
(* Batch: a directory is drawn and process_photo_directory runs on it, one *)
(* step for the enumeration, one for each iteration of the loop, one for   *)
(* the return.                                                             *)
(***************************************************************************)
NamedExts == {".jpg", ".JPG", ".Jpg", ".tiff", ".png"}

\* Either the contents vary (all files a.jpg .. at the top, at most
\* MaxMalformed of them malformed), or the names vary (all files good).
DrawDirectory ==
    \/ /\ \E n \in 0..MaxFiles : \E kinds \in [1..n -> FileKinds] :
            /\ Cardinality({j \in 1..n : kinds[j] \in MalformedKinds}) <= MaxMalformed
            /\ directory = [j \in 1..n |-> FileEntry(".jpg", FALSE, kinds[j])]
       /\ recursive = TRUE
       /\ platform = "posix"
    \/ /\ \E n \in 1..MaxNamedFiles :
            directory \in [1..n -> {FileEntry(ext, nested, "good") :
                                      ext \in NamedExts, nested \in BOOLEAN}]
       /\ recursive \in BOOLEAN
       /\ platform \in {"posix", "windows"}

BatchInit ==
    /\ DrawDirectory
    /\ bpc = "call"
    /\ image_files = <<>>
    /\ idx = 0
    /\ photo_data = <<>>
    /\ berr = ""
    /\ ConvIdle
    /\ AnalyzeIdle
    /\ CliIdle
    /\ ReportIdle
    /\ StagingIdle
    /\ MonitorIdle

\* Lines 111-124: the files are enumerated.
EnumerateFiles ==
    /\ bpc = "call"
    /\ image_files' = ImageFiles(directory, recursive, platform)
    /\ bpc' = "loop"
    /\ UNCHANGED <<directory, platform, recursive, idx, photo_data, berr>>
    /\ UNCHANGED batchRest

\* The effect of one iteration with the given outcome.
Collect(outcome) ==
    /\ idx' = idx + 1
    /\ photo_data' = IF outcome.kind = "record"
                     THEN Append(photo_data, outcome.record)
                     ELSE photo_data
    /\ bpc' = IF outcome.kind = "raise" THEN "raised" ELSE "loop"
    /\ berr' = outcome.exc

\* Lines 126-147: one iteration of the loop.
ProcessImage ==
    /\ bpc = "loop"
    /\ idx < Len(image_files)
    /\ Collect(ProcessFile(directory, image_files[idx + 1]))
    /\ UNCHANGED <<directory, platform, recursive, image_files>>
    /\ UNCHANGED batchRest

\* Line 149: the collection is returned.
ReturnFrame ==
    /\ bpc = "loop"
    /\ idx = Len(image_files)
    /\ bpc' = "returned"
    /\ UNCHANGED <<directory, platform, recursive, image_files, idx, photo_data, berr>>
    /\ UNCHANGED batchRest

(***************************************************************************)
(* C5: on a directory that holds valid images together with files that do  *)
(* not open or carry no EXIF, process_photo_directory returns exactly one  *)
(* record for each enumeration of a valid image, in order, and no record   *)
(* for the other files; the loop goes on after a bad file.                 *)
(***************************************************************************)
RecordedFiles == [j \in 1..Len(photo_data) |-> photo_data[j].file]

IsValidFile(j) == directory[j].kind \in ValidKinds

C6_FailureConfined ==
    bpc \in {"returned", "raised"} =>
        /\ bpc = "returned"
        /\ \A k \in 1..Len(image_files) :
             IsValidFile(image_files[k]) =>
                 \E r \in 1..Len(photo_data) : photo_data[r].file = image_files[k]

(***************************************************************************)
(* process_photo_directory as one call: the loop of lines 126-147 run to   *)
(* its end or to the first exception.                                      *)
(***************************************************************************)
Returned(records, handled) ==
    [kind |-> "returned", photo_data |-> records, exc |-> "", handled |-> handled]
Aborted(exc, handled) ==
    [kind |-> "raised", photo_data |-> <<>>, exc |-> exc, handled |-> handled]

RECURSIVE RunLoop(_, _, _, _)
RECURSIVE AfterBody(_, _, _, _, _)

AfterBody(dir, files, k, records, outcome) ==
    CASE outcome.kind = "raise" -> Aborted(outcome.exc, k)
      [] outcome.kind = "record" ->
           RunLoop(dir, files, k + 1, Append(records, outcome.record))
      [] OTHER -> RunLoop(dir, files, k + 1, records)

RunLoop(dir, files, k, records) ==
    IF k > Len(files) THEN Returned(records, Len(files))
    ELSE AfterBody(dir, files, k, records, ProcessFile(dir, files[k]))

ProcessPhotoDirectory(dir, rec, plat) == RunLoop(dir, ImageFiles(dir, rec, plat), 1, <<>>)

(***************************************************************************)
(* PhotoMetadataAnalyzer.generate_insights, for the records of well-formed *)
(* images.                                                                 *)
(***************************************************************************)
\* dropna keeps a record whose latitude and longitude are both neither None
\* nor NaN.
HasGps(record) ==
    /\ record.latitude.k \notin {"none", "nan"}
    /\ record.longitude.k \notin {"none", "nan"}

NoInsights ==
    [computed |-> FALSE, total_photos |-> 0, gps_enabled_photos |-> 0,
     gps_percentage |-> NoneF]

InsightsOf(total, gps) ==
    [computed |-> TRUE, total_photos |-> total, gps_enabled_photos |-> gps,
     gps_percentage |-> IF total > 0 THEN Fin(100 * gps, total) ELSE Fin(0, 1)]

\* pd.DataFrame(photo_data).columns: the keys of the records; a record
\* without a key leaves the cell empty.
RecordKeys(record) ==
    {"filename", "filepath", "file_size_mb", "latitude", "longitude",
     "camera", "make", "lens"}
    \cup (IF record.settings.aperture.k # "none" THEN {"aperture"} ELSE {})
    \cup (IF record.settings.shutter_speed.form # "absent" THEN {"shutter_speed"} ELSE {})
    \cup (IF record.settings.iso # Absent THEN {"iso"} ELSE {})
    \cup (IF record.settings.focal_length # RNone THEN {"focal_length"} ELSE {})
    \cup (IF record.settings.datetime.form # "absent" THEN {"datetime"} ELSE {})

FrameColumns(records) == UNION {RecordKeys(records[j]) : j \in 1..Len(records)}

\* 'datetime' in df.columns and df['datetime'].notna().any()
HasDates(df, cols) ==
    /\ "datetime" \in cols
    /\ \E j \in 1..Len(df) : df[j].settings.datetime.form = "date"

\* df['hour'] = ..., df['month'] = ..., df['year'] = ...: the columns of the
\* frame that was passed in, after the call.
TimeColumnsAdded(df, cols) ==
    IF HasDates(df, cols) THEN cols \cup {"hour", "month", "year"} ELSE cols

\* df['camera'] of a frame without rows (and so without columns) is a
\* KeyError.
GenerateInsights(df, cols) ==
    IF Len(df) = 0
    THEN [kind |-> "raise", insights |-> NoInsights, exc |-> "KeyError", columns |-> cols]
    ELSE [kind |-> "return", exc |-> "", columns |-> TimeColumnsAdded(df, cols),
          insights |-> InsightsOf(Len(df),
                                  Cardinality({j \in 1..Len(df) : HasGps(df[j])}))]

\* analyze_folder.py, line 5: generate_insights on the frame that
\* process_photo_directory returned, whatever it holds.
ScriptInsighted(outcome) ==
    /\ insights' = outcome.insights
    /\ columns' = outcome.columns
    /\ bpc' = IF outcome.kind = "raise" THEN "insights_raised" ELSE "insights"

ScriptInsights ==
    /\ bpc = "returned"
    /\ ScriptInsighted(GenerateInsights(photo_data, FrameColumns(photo_data)))
    /\ UNCHANGED <<directory, platform, recursive, image_files, idx, photo_data, berr>>
    /\ UNCHANGED <<args, mpc, analyzerCreated, opened, written, exitCode, exported>>
    /\ UNCHANGED <<convVars, analyzeVars, reportVars, dashVars>>

BatchNext ==
    \/ EnumerateFiles
    \/ ProcessImage
    \/ ReturnFrame
    \/ ScriptInsights

SpecBatch == BatchInit /\ [][BatchNext]_vars

(***************************************************************************)
(* cli.generate_html_report and cli.main.                                  *)
(***************************************************************************)
\* The replacement fields of html_template: every "{...}" of the text, the
\* rules of the embedded style sheet included.
TemplateFields ==
    {" font-family", " max-width", " color", " display", " background",
     " font-size", " width", " padding", " background-color", "timestamp",
     "total_photos", "unique_cameras", "unique_lenses", "gps_photos",
     "most_used_camera", "most_used_lens", "avg_iso", "camera_rows", "lens_rows",
     "iso_range", "common_iso", "date_range", "shooting_patterns",
     "sample_data_rows"}

\* The keywords given to html_template.format.
FormatKeywords ==
    {"timestamp", "total_photos", "unique_cameras", "unique_lenses", "gps_photos",
     "most_used_camera", "most_used_lens", "avg_iso", "iso_range", "common_iso",
     "date_range", "camera_rows", "lens_rows", "shooting_patterns",
     "sample_data_rows"}

\* str.format raises KeyError for a field that no keyword names; the file is
\* written after the template was filled.
GenerateHtmlReport ==
    IF TemplateFields \subseteq FormatKeywords
    THEN [kind |-> "return", written |-> {"html"}, exc |-> ""]
    ELSE [kind |-> "raise", written |-> {}, exc |-> "KeyError"]

\* The output dispatch of main: what is written, or the exception.
Dispatch(a) ==
    CASE a.format = "console" -> [kind |-> "return", written |-> {}, exc |-> ""]
      [] a.format = "json" -> [kind |-> "return", written |-> {"json"}, exc |-> ""]
      [] a.format = "csv" -> [kind |-> "return", written |-> {"csv"}, exc |-> ""]
      [] a.format = "html" \/ a.output -> GenerateHtmlReport
      [] OTHER -> [kind |-> "return", written |-> {}, exc |-> ""]

\* Mutant: the directory is not validated.
DirectoryNotChecked(a) == FALSE

\* not os.path.exists(args.directory)
DirectoryMissing(a) == ~a.directory_exists

(***************************************************************************)
(* Command line: the arguments and the directory are drawn and main runs.  *)
(***************************************************************************)
MaxCliFiles == 2     \* files of the directory given to main

Arguments ==
    [directory_exists : BOOLEAN, format : {"console", "json", "csv", "html"},
     output : BOOLEAN, recursive : BOOLEAN, open : BOOLEAN]

CliFiles ==
    {FileEntry(".jpg", nested, kind) :
        nested \in BOOLEAN, kind \in {"good", "good_no_gps", "corrupt", "fnumber_pair"}}

\* A directory that does not exist holds no file.
CliInit ==
    /\ args \in Arguments
    /\ IF args.directory_exists
       THEN \E n \in 0..MaxCliFiles : directory \in [1..n -> CliFiles]
       ELSE directory = <<>>
    /\ platform = "posix" /\ recursive = TRUE /\ bpc = "idle"
    /\ image_files = <<>> /\ idx = 0 /\ photo_data = <<>> /\ berr = ""
    /\ mpc = "start"
    /\ analyzerCreated = FALSE
    /\ opened = 0
    /\ insights = NoInsights
    /\ written = {}
    /\ exitCode = -1
    /\ columns = {}
    /\ exported = {}
    /\ ConvIdle
    /\ AnalyzeIdle
    /\ ReportIdle
    /\ StagingIdle
    /\ MonitorIdle

\* Lines 327-332: the arguments are parsed and the directory is validated.
ValidateDirectory ==
    /\ mpc = "start"
    /\ mpc' = IF DirectoryMissing(args) THEN "exited" ELSE "validated"
    /\ exitCode' = IF DirectoryMissing(args) THEN 1 ELSE exitCode
    /\ UNCHANGED <<args, analyzerCreated, opened, insights, written, columns, exported>>
    /\ UNCHANGED batchVars
    /\ UNCHANGED cliRest

\* Lines 334-338.
CreateAnalyzer ==
    /\ mpc = "validated"
    /\ analyzerCreated' = TRUE
    /\ mpc' = "created"
    /\ UNCHANGED <<args, opened, insights, written, exitCode, columns, exported>>
    /\ UNCHANGED batchVars
    /\ UNCHANGED cliRest

\* The effect of lines 343-350 when process_photo_directory ended as run: an
\* exception, and an empty collection, end main with status 1.
Processed(run) ==
    /\ image_files' = ImageFiles(directory, args.recursive, platform)
    /\ photo_data' = run.photo_data
    /\ columns' = FrameColumns(run.photo_data)
    /\ berr' = run.exc
    /\ opened' = run.handled
    /\ mpc' = IF run.kind = "raised" \/ Len(run.photo_data) = 0
              THEN "exited" ELSE "processed"
    /\ exitCode' = IF run.kind = "raised" \/ Len(run.photo_data) = 0
                   THEN 1 ELSE exitCode

ProcessPhotos ==
    /\ mpc = "created"
    /\ recursive' = args.recursive
    /\ Processed(ProcessPhotoDirectory(directory, args.recursive, platform))
    /\ UNCHANGED <<directory, platform, bpc, idx>>
    /\ UNCHANGED <<args, analyzerCreated, insights, written, exported>>
    /\ UNCHANGED cliRest

\* Line 353.
Insighted(outcome) ==
    /\ insights' = outcome.insights
    /\ columns' = outcome.columns
    /\ mpc' = IF outcome.kind = "raise" THEN "exited" ELSE "insights"
    /\ exitCode' = IF outcome.kind = "raise" THEN 1 ELSE exitCode

ComputeInsights ==
    /\ mpc = "processed"
    /\ Insighted(GenerateInsights(photo_data, columns))
    /\ UNCHANGED <<args, analyzerCreated, opened, written, exported>>
    /\ UNCHANGED batchVars
    /\ UNCHANGED cliRest

\* Lines 355-399: the report is produced; an exception ends main with
\* status 1, otherwise main returns.
Reported(outcome) ==
    /\ written' = outcome.written
    /\ exported' = IF outcome.written \cap {"json", "csv"} # {} THEN columns ELSE {}
    /\ exitCode' = IF outcome.kind = "raise" THEN 1 ELSE 0
    /\ mpc' = "exited"

WriteOutput ==
    /\ mpc = "insights"
    /\ Reported(Dispatch(args))
    /\ UNCHANGED <<args, analyzerCreated, opened, insights, columns>>
    /\ UNCHANGED batchVars
    /\ UNCHANGED cliRest

CliNext ==
    \/ ValidateDirectory
    \/ CreateAnalyzer
    \/ ProcessPhotos
    \/ ComputeInsights
    \/ WriteOutput

SpecCli == CliInit /\ [][CliNext]_vars

(***************************************************************************)
(* The most-used camera and lens of the reports: df[column].mode().iloc[0] *)
(* in cli.generate_html_report and in the dashboard.  A frame is the       *)
(* sequence of its records, of which the camera and the lens are kept.     *)
(***************************************************************************)
MaxRecords == 3      \* records of the frame given to a report

Cameras == {"D850", "EOS", "Z6"}
Lenses == {"35mm", "50mm"}

\* The texts in the order in which sorting places them (by code point).
SortedTexts == <<"35mm", "50mm", "D850", "EOS", "Z6">>
TextRank(v) == CHOOSE k \in 1..Len(SortedTexts) : SortedTexts[k] = v

Column(df, name) == [j \in 1..Len(df) |-> df[j][name]]

\* value_counts: how often a value occurs in a column.
CountOf(col, v) == Cardinality({j \in 1..Len(col) : col[j] = v})

\* The values of a column that occur most often.
Modes(col) ==
    {col[j] : j \in {j \in 1..Len(col) :
                        \A k \in 1..Len(col) : CountOf(col, col[k]) <= CountOf(col, col[j])}}

\* Mutant: the modes are left in the order in which they were encountered.
FirstEncounteredMode(col, modes) ==
    col[CHOOSE j \in 1..Len(col) :
          col[j] \in modes /\ \A k \in 1..(j - 1) : col[k] \notin modes]

\* Series.mode() returns the modes sorted; .iloc[0] is the first of them.
FirstSortedMode(col, modes) ==
    CHOOSE v \in modes : \A w \in modes : TextRank(v) <= TextRank(w)

\* df[name].mode().iloc[0] if name in df.columns and not df[name].empty
\* else "N/A"
MostUsed(col) == IF Len(col) = 0 THEN "N/A" ELSE FirstSortedMode(col, Modes(col))

ReportInit ==
    /\ \E n \in 0..MaxRecords : frame \in [1..n -> [camera : Cameras, lens : Lenses]]
    /\ rpc = "input"
    /\ most_used = "none"
    /\ ConvIdle
    /\ AnalyzeIdle
    /\ BatchIdle
    /\ CliIdle
    /\ StagingIdle
    /\ MonitorIdle

\* cli.generate_html_report, most_used_camera.
HtmlMostUsedCamera ==
    /\ rpc = "input"
    /\ most_used' = MostUsed(Column(frame, "camera"))
    /\ rpc' = "html_camera"
    /\ UNCHANGED frame
    /\ UNCHANGED reportRest

\* cli.generate_html_report, most_used_lens.
HtmlMostUsedLens ==
    /\ rpc = "input"
    /\ most_used' = MostUsed(Column(frame, "lens"))
    /\ rpc' = "html_lens"
    /\ UNCHANGED frame
    /\ UNCHANGED reportRest

\* streamlit_dashboard.main, quick insights: shown for a frame with records.
DashboardMostUsedCamera ==
    /\ rpc = "input"
    /\ Len(frame) > 0
    /\ most_used' = FirstSortedMode(Column(frame, "camera"), Modes(Column(frame, "camera")))
    /\ rpc' = "dashboard_camera"
    /\ UNCHANGED frame
    /\ UNCHANGED reportRest

ReportNext ==
    \/ HtmlMostUsedCamera
    \/ HtmlMostUsedLens
    \/ DashboardMostUsedCamera

SpecReport == ReportInit /\ [][ReportNext]_vars

(***************************************************************************)
(* streamlit_dashboard.StagingManager.  An operation is named by its kind  *)
(* and the second at which it was staged; its staged file is named by the  *)
(* base name, that second and the extension.                               *)
(***************************************************************************)
MaxOps == 2          \* operations staged by one StagingManager
MaxClock == 2        \* seconds that pass while the dashboard runs

\* datetime.now().strftime("%Y%m%d_%H%M%S"): the time to the second.
Timestamp(now) == now

Operation(kind, base, type, now) ==
    [operation_id |-> <<kind, Timestamp(now)>>,
     type |-> type,
     filename |-> <<base, Timestamp(now), kind>>,
     status |-> "staged",
     committed_path |-> <<>>,
     commit_timestamp |-> -1]

\* os.path.join(self.staging_dir, staged_filename)
StagedPath(operation) == <<"staging_dir">> \o operation.filename

\* next((op for op in self.staged_operations if op["operation_id"] ==
\* operation_id), None): the position of the first match, 0 for None.
FindOperation(ops, operation_id) ==
    IF \E j \in 1..Len(ops) : ops[j].operation_id = operation_id
    THEN CHOOSE j \in 1..Len(ops) :
           /\ ops[j].operation_id = operation_id
           /\ \A k \in 1..(j - 1) : ops[k].operation_id # operation_id
    ELSE 0

StagingResult(call, id, ok, msg, found) ==
    [call |-> call, id |-> id, ok |-> ok, msg |-> msg, found |-> found]

StagingInit ==
    /\ staged_operations = <<>>
    /\ clock = 0
    /\ sout = StagingResult("__init__", <<>>, TRUE, "", 0)
    /\ ConvIdle
    /\ AnalyzeIdle
    /\ BatchIdle
    /\ CliIdle
    /\ ReportIdle
    /\ MonitorIdle

\* A second passes.
ClockTick ==
    /\ clock < MaxClock
    /\ clock' = clock + 1
    /\ UNCHANGED <<staged_operations, sout>>
    /\ UNCHANGED stagingRest

\* The operation is appended and returned.
Staged(call, operation) ==
    /\ staged_operations' = Append(staged_operations, operation)
    /\ sout' = StagingResult(call, operation.operation_id, TRUE, "",
                             Len(staged_operations) + 1)

\* stage_csv_creation(df, "photo_metadata"), after processing or by button.
StageCsvCreation ==
    /\ Len(staged_operations) < MaxOps
    /\ Staged("stage_csv_creation",
              Operation("csv", "photo_metadata", "create_csv", clock))
    /\ UNCHANGED clock
    /\ UNCHANGED stagingRest

\* stage_json_creation(json_data, "photo_analysis")
StageJsonCreation ==
    /\ Len(staged_operations) < MaxOps
    /\ Staged("stage_json_creation",
              Operation("json", "photo_analysis", "create_json", clock))
    /\ UNCHANGED clock
    /\ UNCHANGED stagingRest

OperationIds == {<<kind, t>> : kind \in {"csv", "json"}, t \in 0..MaxClock}

\* preview_operation(operation_id): the operation previewed, None (0) when
\* no operation has the id.
PreviewOperation ==
    /\ \E id \in OperationIds :
         sout' = StagingResult("preview_operation", id,
                               FindOperation(staged_operations, id) # 0, "",
                               FindOperation(staged_operations, id))
    /\ UNCHANGED <<staged_operations, clock>>
    /\ UNCHANGED stagingRest

TargetDirs == {"None", "writable", "unwritable"}

CommitResult(ok, msg, operation) == [ok |-> ok, msg |-> msg, operation |-> operation]

\* Mutant: the status is set before the file is copied.
CommitTryStatusFirst(operation, target_dir, now) ==
    IF target_dir = "unwritable"
    THEN CommitResult(FALSE, "Error", [operation EXCEPT !.status = "committed"])
    ELSE CommitResult(TRUE, "Operation committed successfully",
                      [operation EXCEPT
                         !.committed_path =
                             IF target_dir = "None" THEN @ ELSE <<target_dir>> \o operation.filename,
                         !.status = "committed",
                         !.commit_timestamp = now])

\* The try block of commit_operation: shutil.copy2 raises before anything is
\* assigned when the target cannot be written.
CommitTry(operation, target_dir, now) ==
    IF target_dir = "unwritable"
    THEN CommitResult(FALSE, "Error", operation)
    ELSE CommitResult(TRUE, "Operation committed successfully",
                      [operation EXCEPT
                         !.committed_path =
                             IF target_dir = "None" THEN @ ELSE <<target_dir>> \o operation.filename,
                         !.status = "committed",
                         !.commit_timestamp = now])

\* The effect of commit_operation on the operation found at position j.
Committed(id, j, result) ==
    /\ staged_operations' = [staged_operations EXCEPT ![j] = result.operation]
    /\ sout' = StagingResult("commit_operation", id, result.ok, result.msg, j)

NotFound(id) ==
    /\ sout' = StagingResult("commit_operation", id, FALSE, "Operation not found", 0)
    /\ UNCHANGED staged_operations

CommitFound(id, j, target_dir) ==
    IF j = 0 THEN NotFound(id)
    ELSE Committed(id, j, CommitTry(staged_operations[j], target_dir, clock))

CommitOperation ==
    /\ \E id \in OperationIds, target_dir \in TargetDirs :
         CommitFound(id, FindOperation(staged_operations, id), target_dir)
    /\ UNCHANGED clock
    /\ UNCHANGED stagingRest

StagingNext ==
    \/ ClockTick
    \/ StageCsvCreation
    \/ StageJsonCreation
    \/ PreviewOperation
    \/ CommitOperation

SpecStaging == StagingInit /\ [][StagingNext]_vars

(***************************************************************************)
(* streamlit_dashboard: start_file_monitoring and stop_file_monitoring.    *)
(* An Observer is a thread: created, then running once started, then       *)
(* stopped; joining a thread that was never started raises RuntimeError.   *)
(***************************************************************************)
MaxObservers == 5    \* Observer objects created while the dashboard runs

Directories == {"photos", "album", "missing"}

\* Observer.start() succeeds for a directory that can be watched.
Watchable(directory_path) == directory_path # "missing"

NewObserver == [state |-> "created", watching |-> ""]

MonitorResult(call, dir, ok) == [call |-> call, dir |-> dir, ok |-> ok]

MonitorInit ==
    /\ observers = <<>>
    /\ observer = 0
    /\ mout = MonitorResult("", "", TRUE)
    /\ ConvIdle
    /\ AnalyzeIdle
    /\ BatchIdle
    /\ CliIdle
    /\ ReportIdle
    /\ StagingIdle

\* observer.stop(); observer.join(): a running observer ends; an observer
\* that was never started cannot be joined.
StopAndJoin(obs) ==
    IF obs.state = "created"
    THEN [kind |-> "raise", obs |-> obs, exc |-> "RuntimeError"]
    ELSE [kind |-> "return", obs |-> [obs EXCEPT !.state = "stopped"], exc |-> ""]

\* Observer(); schedule(handler, directory); start()
Started(directory_path) ==
    IF Watchable(directory_path)
    THEN [state |-> "running", watching |-> directory_path]
    ELSE [state |-> "created", watching |-> directory_path]

\* Lines 334-338: a new observer replaces the one of the session.
Replace(obs, directory_path) ==
    /\ observers' = Append(obs, Started(directory_path))
    /\ observer' = Len(obs) + 1
    /\ mout' = MonitorResult("start_file_monitoring", directory_path,
                             Watchable(directory_path))

\* Lines 330-333, and the except clause when the join raises.
StopPrevious(directory_path, stopped) ==
    IF stopped.kind = "raise"
    THEN /\ mout' = MonitorResult("start_file_monitoring", directory_path, FALSE)
         /\ UNCHANGED <<observers, observer>>
    ELSE Replace([observers EXCEPT ![observer] = stopped.obs], directory_path)

StartFileMonitoring ==
    /\ Len(observers) < MaxObservers
    /\ \E directory_path \in Directories :
         IF observer # 0
         THEN StopPrevious(directory_path, StopAndJoin(observers[observer]))
         ELSE Replace(observers, directory_path)
    /\ UNCHANGED monitorRest

\* Lines 349-352, and the except clause when the join raises.
Stopped(stopped) ==
    IF stopped.kind = "raise"
    THEN UNCHANGED <<observers, observer>>
    ELSE /\ observers' = [observers EXCEPT ![observer] = stopped.obs]
         /\ observer' = 0

StopFileMonitoring ==
    /\ mout' = MonitorResult("stop_file_monitoring", "", TRUE)
    /\ IF observer # 0
       THEN Stopped(StopAndJoin(observers[observer]))
       ELSE UNCHANGED <<observers, observer>>
    /\ UNCHANGED monitorRest

MonitorNext ==
    \/ StartFileMonitoring
    \/ StopFileMonitoring

SpecMonitor == MonitorInit /\ [][MonitorNext]_vars

(***************************************************************************)
(* C8: when the directory given to main does not exist the run ends at     *)
(* once with an error exit: no analyzer is created, no image is opened, no *)
(* insight is computed and no output file is written.                      *)
(***************************************************************************)
C8_MissingDirectoryFatal ==
    (~args.directory_exists /\ mpc # "start") =>
        /\ mpc = "exited"
        /\ exitCode = 1
        /\ ~analyzerCreated
        /\ opened = 0
        /\ insights = NoInsights
        /\ written = {}

\* main was run on a directory that does not exist, with an output file
\* asked for, and has ended.
C8_Witness ==
    /\ ~args.directory_exists
    /\ args.output
    /\ args.format = "json"
    /\ mpc = "exited"
    /\ exitCode = 1

(***************************************************************************)
(* C7: analyze_image on an image that opens and holds EXIF data returns a  *)
(* record, whatever the values of its tags are.                            *)
(***************************************************************************)
C7_RecordWhateverTheTags ==
    (apc = "analyze_image" /\ image.exists /\ image.opens
       /\ DOMAIN image.exif # {}) =>
        anOut.kind = "record"

(***************************************************************************)
(* C9: convert_gps_to_decimal gives latitude and longitude as a pair: when *)
(* one of them is missing or fails to convert, both are None.              *)
(***************************************************************************)
C9_LatitudeLongitudePair ==
    (apc = "convert_gps_to_decimal" /\ gpsOut.kind = "return") =>
        (gpsOut.latitude.k = "none" <=> gpsOut.longitude.k = "none")

(***************************************************************************)
(* C10: a failure to convert one GPS subfield never leaves the GPS         *)
(* converter as an exception: extract_gps_info and convert_gps_to_decimal  *)
(* return, and analyze_image on an image whose other tags are well formed  *)
(* still returns its record.                                               *)
(***************************************************************************)
OnlyGpsVaries(file) ==
    /\ file.exists /\ file.opens
    /\ DOMAIN file.exif = DOMAIN BaseExif
    /\ \A t \in DOMAIN BaseExif \ {"GPSInfo"} : file.exif[t] = BaseExif[t]

C10_GpsFailureContained ==
    /\ apc \in {"extract_gps_info", "convert_gps_to_decimal"} =>
         gpsOut.kind = "return"
    /\ (apc = "analyze_image" /\ OnlyGpsVaries(image)) => anOut.kind = "record"

(***************************************************************************)
(* Degrees, minutes and seconds as exact rationals.  A well-formed         *)
(* component is a finite number or a pair of finite numbers whose second   *)
(* is not zero; a well-formed coordinate has three of them.                *)
(***************************************************************************)
IsDmsComponent(c) ==
    \/ IsFiniteNumber(c)
    \/ IsRationalPair(c) /\ Numer(c.e[2]) # 0

ComponentNumer(c) ==
    IF IsFiniteNumber(c) THEN Numer(c) ELSE Numer(c.e[1]) * Denom(c.e[2])
ComponentDenom(c) ==
    IF IsFiniteNumber(c) THEN Denom(c) ELSE Denom(c.e[1]) * Numer(c.e[2])

IsDms(v) ==
    /\ IsSeq(v)
    /\ Len(v.e) = 3
    /\ \A j \in 1..3 : IsDmsComponent(v.e[j])

\* degrees + minutes/60 + seconds/3600 as the fraction DmsNumer / DmsDenom.
DmsNumer(v) ==
    3600 * ComponentNumer(v.e[1]) * ComponentDenom(v.e[2]) * ComponentDenom(v.e[3])
    + 60 * ComponentNumer(v.e[2]) * ComponentDenom(v.e[1]) * ComponentDenom(v.e[3])
    + ComponentNumer(v.e[3]) * ComponentDenom(v.e[1]) * ComponentDenom(v.e[2])
DmsDenom(v) ==
    3600 * ComponentDenom(v.e[1]) * ComponentDenom(v.e[2]) * ComponentDenom(v.e[3])

\* The float x is the fraction n/d, or its opposite when negated.
IsFraction(x, n, d, negated) ==
    /\ x.k = "fin"
    /\ x.n * d = (IF negated THEN -n ELSE n) * x.d

\* The GPS dictionary handed to the converter.
GpsInfoOfImage == AsDict(image.exif["GPSInfo"])

(***************************************************************************)
(* C11: for a latitude or longitude given as (degrees, minutes, seconds),  *)
(* each a number or a rational pair with non-zero denominator, and a       *)
(* reference that does not negate, GPSExtractor.convert_gps_to_decimal     *)
(* returns degrees + minutes/60 + seconds/3600; (37, 48, 0) with           *)
(* reference 'N' gives 37.8.                                               *)
(***************************************************************************)
C11_DmsToDecimal ==
    apc = "convert_gps_to_decimal" =>
        /\ ( /\ "GPSLatitude" \in DOMAIN GpsInfoOfImage
             /\ IsDms(GpsInfoOfImage["GPSLatitude"])
             /\ DictGet(GpsInfoOfImage, "GPSLatitudeRef") # RStr(<<"S">>)
             /\ gpsOut.kind = "return" ) =>
               IsFraction(gpsOut.latitude,
                          DmsNumer(GpsInfoOfImage["GPSLatitude"]),
                          DmsDenom(GpsInfoOfImage["GPSLatitude"]), FALSE)
        /\ ( /\ "GPSLongitude" \in DOMAIN GpsInfoOfImage
             /\ IsDms(GpsInfoOfImage["GPSLongitude"])
             /\ DictGet(GpsInfoOfImage, "GPSLongitudeRef") # RStr(<<"W">>)
             /\ gpsOut.kind = "return" ) =>
               IsFraction(gpsOut.longitude,
                          DmsNumer(GpsInfoOfImage["GPSLongitude"]),
                          DmsDenom(GpsInfoOfImage["GPSLongitude"]), FALSE)

\* (37, 48, 0) 'N' was converted to 37.8 = 189/5.
C11_Witness ==
    /\ apc = "convert_gps_to_decimal"
    /\ DictGet(GpsInfoOfImage, "GPSLatitude") = GoodLatitude
    /\ DictGet(GpsInfoOfImage, "GPSLatitudeRef") = RStr(<<"N">>)
    /\ gpsOut.latitude = [k |-> "fin", n |-> 189, d |-> 5]

(***************************************************************************)
(* C12: in both GPS converters the latitude of a well-formed coordinate is *)
(* the opposite of degrees + minutes/60 + seconds/3600 exactly when        *)
(* GPSLatitudeRef is 'S', and the longitude exactly when GPSLongitudeRef   *)
(* is 'W'; with another reference or none the sign is unchanged.           *)
(* PhotoMetadataAnalyzer's converter takes components that are numbers.    *)
(***************************************************************************)
IsPlainDms(v) == IsDms(v) /\ \A j \in 1..3 : IsFiniteNumber(v.e[j])

C12_HemisphereSign ==
    /\ (apc = "convert_gps_to_decimal" /\ gpsOut.kind = "return") =>
         /\ ("GPSLatitude" \in DOMAIN GpsInfoOfImage
               /\ IsDms(GpsInfoOfImage["GPSLatitude"])) =>
              IsFraction(gpsOut.latitude,
                         DmsNumer(GpsInfoOfImage["GPSLatitude"]),
                         DmsDenom(GpsInfoOfImage["GPSLatitude"]),
                         DictGet(GpsInfoOfImage, "GPSLatitudeRef") = RStr(<<"S">>))
         /\ ("GPSLongitude" \in DOMAIN GpsInfoOfImage
               /\ IsDms(GpsInfoOfImage["GPSLongitude"])) =>
              IsFraction(gpsOut.longitude,
                         DmsNumer(GpsInfoOfImage["GPSLongitude"]),
                         DmsDenom(GpsInfoOfImage["GPSLongitude"]),
                         DictGet(GpsInfoOfImage, "GPSLongitudeRef") = RStr(<<"W">>))
    /\ ( /\ apc = "analyzer_convert_gps_to_decimal"
         /\ gpsOut.kind = "return"
         /\ {"GPSLatitude", "GPSLongitude"} \subseteq DOMAIN GpsInfoOfImage ) =>
         /\ IsPlainDms(GpsInfoOfImage["GPSLatitude"]) =>
              IsFraction(gpsOut.lat,
                         DmsNumer(GpsInfoOfImage["GPSLatitude"]),
                         DmsDenom(GpsInfoOfImage["GPSLatitude"]),
                         DictGet(GpsInfoOfImage, "GPSLatitudeRef") = RStr(<<"S">>))
         /\ IsPlainDms(GpsInfoOfImage["GPSLongitude"]) =>
              IsFraction(gpsOut.lon,
                         DmsNumer(GpsInfoOfImage["GPSLongitude"]),
                         DmsDenom(GpsInfoOfImage["GPSLongitude"]),
                         DictGet(GpsInfoOfImage, "GPSLongitudeRef") = RStr(<<"W">>))

\* PhotoMetadataAnalyzer's converter has negated a southern latitude and a
\* western longitude: (37, 48, 0) 'S' gave -37.8, (122, 30, 0) 'W' gave -122.5.
C12_Witness ==
    /\ apc = "analyzer_convert_gps_to_decimal"
    /\ DictGet(GpsInfoOfImage, "GPSLatitude") = GoodLatitude
    /\ DictGet(GpsInfoOfImage, "GPSLatitudeRef") = RStr(<<"S">>)
    /\ DictGet(GpsInfoOfImage, "GPSLongitudeRef") = RStr(<<"W">>)
    /\ gpsOut.kind = "return"
    /\ gpsOut.lat = [k |-> "fin", n |-> -189, d |-> 5]
    /\ gpsOut.lon = [k |-> "fin", n |-> -245, d |-> 2]

(***************************************************************************)
(* C13: when GPSAltitude converts to a value a, convert_gps_to_decimal     *)
(* returns -a if GPSAltitudeRef is the below-sea-level flag 1, delivered   *)
(* as the number 1 or as the one-byte blob 0x01, and a otherwise.          *)
(***************************************************************************)
BelowSeaLevel(ref) ==
    \/ ref = RInt(1)
    \/ ref = RFloat(Fin(1, 1))
    \/ ref = RBytes(<<"x01">>)

C13_AltitudeSign ==
    ( /\ apc = "convert_gps_to_decimal"
      /\ gpsOut.kind = "return"
      /\ "GPSAltitude" \in DOMAIN GpsInfoOfImage
      /\ IsFiniteNumber(GpsInfoOfImage["GPSAltitude"]) ) =>
        IsFraction(gpsOut.altitude,
                   Numer(GpsInfoOfImage["GPSAltitude"]),
                   Denom(GpsInfoOfImage["GPSAltitude"]),
                   BelowSeaLevel(DictGet(GpsInfoOfImage, "GPSAltitudeRef")))

(***************************************************************************)
(* C14: for a Flash, MeteringMode or WhiteBalance tag whose integer code N *)
(* is not in the decode table, extract_exposure_info returns and the       *)
(* decoded value is the text "Unknown mode (N)" with N written as the      *)
(* integer: "Unknown mode (200)" for Flash code 200.                       *)
(***************************************************************************)
TableOf(tag) ==
    CASE tag = "Flash" -> flash_modes
      [] tag = "MeteringMode" -> metering_modes
      [] OTHER -> wb_modes

FieldOf(res, tag) ==
    res[CHOOSE j \in 1..Len(exposure_fields) : exposure_fields[j] = tag]

C14_UnknownModeText ==
    ( /\ cpc = "extract_exposure_info"
      /\ raw.t = "int"
      /\ raw.i \notin TableOf(exOut.tag) ) =>
        /\ exOut.kind = "return"
        /\ FieldOf(exOut.res, exOut.tag).form = "unknown"
        /\ UnknownModeText(FieldOf(exOut.res, exOut.tag).shown)
             = <<"Unknown mode (">> \o PyStrInt(raw.i) \o <<")">>

(***************************************************************************)
(* C15 as stated: format_shutter_speed(s) is "1/k" with k = round(1/s) for *)
(* every number s < 1 and "<s>s" for every number s >= 1.                  *)
(***************************************************************************)
ShutterSeconds == PyFloat(raw).val

\* k is the integer nearest to 1/s (the even one when 1/s lies halfway); the
\* reciprocal of minus infinity is zero.
IsRoundedReciprocal(k, s) ==
    CASE s.k = "inf" -> k = 0
      [] s.k = "fin" /\ s.n # 0 ->
           /\ 2 * Abs(k * s.n - s.d) <= Abs(s.n)
           /\ 2 * Abs(k * s.n - s.d) = Abs(s.n) => k % 2 = 0
      [] OTHER -> FALSE

AtLeastOne(s) == s.k # "nan" /\ ~LessThanOne(s)

C15_ShutterDisplay ==
    (cpc = "format_shutter_speed" /\ IsNumber(raw)) =>
        /\ LessThanOne(ShutterSeconds) =>
             /\ fmtOut.form = "1/N"
             /\ IsRoundedReciprocal(fmtOut.n, ShutterSeconds)
        /\ AtLeastOne(ShutterSeconds) =>
             fmtOut = ShutterShown("s", 0, raw)

(***************************************************************************)
(* C15 amended: the rule holds for every number s < 1 other than zero; for *)
(* s = 0, whose reciprocal does not exist, the text is "0.000000s".        *)
(***************************************************************************)
C15_ShutterDisplayNonZero ==
    (cpc = "format_shutter_speed" /\ IsNumber(raw)) =>
        /\ (LessThanOne(ShutterSeconds) /\ ~IsZero(ShutterSeconds)) =>
             /\ fmtOut.form = "1/N"
             /\ IsRoundedReciprocal(fmtOut.n, ShutterSeconds)
        /\ IsZero(ShutterSeconds) => fmtOut = ShutterShown("fixed6", 0, raw)
        /\ AtLeastOne(ShutterSeconds) => fmtOut = ShutterShown("s", 0, raw)

\* 0.0005 was shown as "1/2000".
C15_Witness ==
    /\ cpc = "format_shutter_speed"
    /\ raw = RFloat(Fin(1, 2000))
    /\ fmtOut = ShutterShown("1/N", 2000, RNone)

(***************************************************************************)
(* C16: the shutter_speed that parse_camera_settings gives for a numeric   *)
(* ExposureTime s is the text format_shutter_speed(s) gives: "1/k" with    *)
(* k = round(1/s) below one second, "<s>s" from one second on.             *)
(***************************************************************************)
SameShutterText(setting, shown) ==
    /\ setting.form = shown.form
    /\ shown.form = "1/N" => setting.val = Fin(shown.n, 1)
    /\ shown.form = "s" => setting.val = PyFloat(shown.shown).val

C16_BatchShutterDisplay ==
    ( /\ cpc = "parse_camera_settings"
      /\ setOut.tag = "ExposureTime"
      /\ IsNumber(raw) ) =>
        /\ setOut.out.kind = "return"
        /\ SameShutterText(setOut.out.shutter_speed, format_shutter_speed(raw))

(***************************************************************************)
(* C17: format_datetime returns the instant of a text in the colon form    *)
(* 'YYYY:MM:DD HH:MM:SS'; a text that fails the colon form is tried in the *)
(* hyphen form before it is marked unparseable; for a text in neither form *)
(* the result contains the original text, and analyze_image keeps the      *)
(* field, raw and formatted, in the record it returns.                     *)
(***************************************************************************)
FieldOfText(res, tag) ==
    res[CHOOSE j \in 1..Len(text_fields) : text_fields[j] = tag]

OnlyVaries(file, tag) ==
    /\ file.exists /\ file.opens
    /\ DOMAIN file.exif = DOMAIN BaseExif
    /\ \A t \in DOMAIN BaseExif \ {tag} : file.exif[t] = BaseExif[t]

Contains(text, part) ==
    \E j \in 1..(Len(text) + 1) :
        /\ j + Len(part) - 1 <= Len(text)
        /\ SubSeq(text, j, j + Len(part) - 1) = part

Instant(Y, m, d, H, M, S) == [Y |-> Y, m |-> m, d |-> d, H |-> H, M |-> M, S |-> S]

DateTimeField == FieldOfText(anOut.camera_analysis.additional_info, "DateTime")

C17_DateTimeForms ==
    ( /\ apc = "analyze_image"
      /\ image.exists /\ image.opens
      /\ "DateTime" \in DOMAIN image.exif
      /\ image.exif["DateTime"].t = "str" ) =>
        /\ OnlyVaries(image, "DateTime") => anOut.kind = "record"
        /\ (anOut.kind = "record" /\ anOut.has_exif) =>
             /\ DateTimeField.kind = "return"
             /\ DateTimeField.form # "absent"
             /\ DateTimeField.raw = image.exif["DateTime"]
             /\ CASE image.exif["DateTime"] = GoodDateTime ->
                       /\ DateTimeField.form = "date"
                       /\ DateTimeField.dt = Instant(2023, 1, 15, 10, 30, 0)
                  [] image.exif["DateTime"] = HyphenDateTime ->
                       /\ DateTimeField.form = "date"
                       /\ DateTimeField.dt = Instant(2024, 2, 29, 7, 5, 59)
                  [] OTHER ->
                       /\ DateTimeField.form # "date"
                       /\ Contains(DateTimeField.text, image.exif["DateTime"].s)

\* A text that names no date was kept with its original text.
C17_Witness ==
    /\ apc = "analyze_image"
    /\ OnlyVaries(image, "DateTime")
    /\ image.exif["DateTime"] = BadDateTime
    /\ anOut.kind = "record"
    /\ DateTimeField.form = "Invalid format"
    /\ DateTimeField.text = <<"Invalid format: ">> \o BadDateTime.s
    /\ DateTimeField.raw = BadDateTime

(***************************************************************************)
(* C18: to_float is idempotent on its results: applied to a float x that   *)
(* to_float returned, it returns x; an int or float input is returned as   *)
(* the float of the same value.                                            *)
(***************************************************************************)
FloatOfNumber(v) == IF v.t = "int" THEN [k |-> "fin", n |-> v.i, d |-> 1] ELSE v.f

C18_Idempotent ==
    /\ cpc = "to_float_again" =>
         /\ tfOut.kind = "return"
         /\ tfOut.val = raw.f
    /\ (cpc \in {"to_float", "to_float_again"} /\ IsNumber(raw)) =>
         /\ tfOut.kind = "return"
         /\ tfOut.val = FloatOfNumber(raw)

\* The result 0.5 of a first conversion was converted again to 0.5.
C18_Witness ==
    /\ cpc = "to_float_again"
    /\ raw = RFloat(Fin(1, 2))
    /\ tfOut.val = [k |-> "fin", n |-> 1, d |-> 2]

(***************************************************************************)
(* C19: to_float of a single-element sequence (x,) returns what            *)
(* to_float(x) returns; one level is removed by the call, so that a        *)
(* number inside is returned as its float and a rational pair inside is    *)
(* divided, not unwrapped further.                                         *)
(***************************************************************************)
C19_SingleElementUnwrapped ==
    (cpc = "to_float" /\ IsSeq(raw) /\ Len(raw.e) = 1) =>
        /\ tfOut = ToFloat(raw.e[1])
        /\ IsFiniteNumber(raw.e[1]) => tfOut.val = FloatOfNumber(raw.e[1])
        /\ (IsRationalPair(raw.e[1]) /\ Numer(raw.e[1].e[2]) # 0) =>
             /\ tfOut.val.k = "fin"
             /\ tfOut.val.n * Denom(raw.e[1].e[1]) * Numer(raw.e[1].e[2])
                  = tfOut.val.d * Numer(raw.e[1].e[1]) * Denom(raw.e[1].e[2])

\* ((1, 1),) was unwrapped to the pair (1, 1) and divided to 1.0.
C19_Witness ==
    /\ cpc = "to_float"
    /\ raw = RSeq(<<RSeq(<<RInt(1), RInt(1)>>)>>)
    /\ tfOut = Ret(Fin(1, 1), "Fraction")

(***************************************************************************)
(* C20: an APEX aperture value is decoded as 2^(apex/2): extract_aperture  *)
(* stores that f-number under 'ApertureValue' and 'MaxApertureValue', 1.0  *)
(* for apex 0 and 2.0 for apex 2, and parse_camera_settings computes the   *)
(* aperture of the record by the same formula when FNumber is absent.      *)
(***************************************************************************)
\* The float r is 2^(apex/2): r * r = 2^apex for a rational r, the exponent
\* of r is apex/2 for a power of two that is kept as a power.
IsHalfPower(r, apex) ==
    CASE r.k = "fin" ->
           /\ apex.d = 1
           /\ IF apex.n >= 0
              THEN r.n * r.n = Pow(2, apex.n) * r.d * r.d
              ELSE r.n * r.n * Pow(2, -apex.n) = r.d * r.d
      [] r.k = "pow" -> 2 * r.n * apex.d = r.d * apex.n
      [] OTHER -> FALSE

\* A finite APEX value whose f-number lies in the range of a float.
IsApex(apex) == apex.k = "fin" /\ apex.n < 2048 * apex.d

DecodedApex(r, apex) ==
    /\ IsHalfPower(r, apex)
    /\ apex = Fin(0, 1) => r = Fin(1, 1)
    /\ apex = Fin(2, 1) => r = Fin(2, 1)

C20_ApexAperture ==
    /\ ( /\ cpc = "extract_aperture"
         /\ exOut.tag \in {"ApertureValue", "MaxApertureValue"}
         /\ IsApex(ToFloat(raw).val) ) =>
           /\ exOut.kind = "return"
           /\ DecodedApex(exOut.res[exOut.tag], ToFloat(raw).val)
    /\ ( /\ cpc = "parse_camera_settings"
         /\ setOut.tag = "ApertureValue"
         /\ IsNumber(raw)
         /\ IsApex(FloatOfNumber(raw)) ) =>
           /\ setOut.out.kind = "return"
           /\ DecodedApex(setOut.out.aperture, FloatOfNumber(raw))

\* The APEX value 2 under 'MaxApertureValue' was stored as the f-number 2.0.
C20_Witness ==
    /\ cpc = "extract_aperture"
    /\ exOut.tag = "MaxApertureValue"
    /\ raw = RInt(2)
    /\ exOut.res["MaxApertureValue"] = [k |-> "fin", n |-> 2, d |-> 1]

(***************************************************************************)
(* C21: an APEX shutter value is decoded as 2^(-apex) seconds:             *)
(* extract_shutter_speed stores that time under 'ShutterSpeedValue' for    *)
(* every ShutterSpeedValue tag that to_float converts, 1.0 for apex 0.     *)
(***************************************************************************)
\* The float r is 2^(-apex), by IEEE rules for an infinite or NaN apex.
IsShutterTime(r, apex) ==
    CASE apex.k = "nan" -> r = NaN
      [] apex.k = "inf" -> r = (IF apex.n > 0 THEN Fin(0, 1) ELSE Inf(1))
      [] r.k = "fin" ->
           /\ apex.d = 1
           /\ IF apex.n >= 0
              THEN r.n * Pow(2, apex.n) = r.d
              ELSE r.n = Pow(2, -apex.n) * r.d
      [] r.k = "pow" -> r.n * apex.d = -apex.n * r.d
      [] OTHER -> FALSE

DecodedShutter(r, apex) ==
    /\ IsShutterTime(r, apex)
    /\ apex = Fin(0, 1) => r = Fin(1, 1)

\* 2^(-apex) lies beyond the range of a float.
ShutterOverflows(apex) == apex.k = "fin" /\ -apex.n >= 1024 * apex.d

ShutterValueConverted ==
    /\ cpc = "extract_shutter_speed"
    /\ exOut.tag = "ShutterSpeedValue"
    /\ ToFloat(raw).val.k # "none"

C21_ApexShutter ==
    ShutterValueConverted =>
        /\ exOut.kind = "return"
        /\ DecodedShutter(exOut.res["ShutterSpeedValue"], ToFloat(raw).val)

\* C21, amended: the time is stored for every converted value whose power
\* 2^(-apex) lies in the range of a float; when the power overflows nothing is
\* stored under 'ShutterSpeedValue'.
C21_ApexShutterInRange ==
    ShutterValueConverted =>
        /\ exOut.kind = "return"
        /\ ~ShutterOverflows(ToFloat(raw).val) =>
             DecodedShutter(exOut.res["ShutterSpeedValue"], ToFloat(raw).val)
        /\ ShutterOverflows(ToFloat(raw).val) =>
             exOut.res["ShutterSpeedValue"] = NoneF

\* The APEX value 1 was stored as half a second.
C21_Witness ==
    /\ cpc = "extract_shutter_speed"
    /\ exOut.tag = "ShutterSpeedValue"
    /\ raw = RInt(1)
    /\ exOut.res["ShutterSpeedValue"] = [k |-> "fin", n |-> 1, d |-> 2]

(***************************************************************************)
(* C22: the collection a directory scan returned is not changed            *)
(* afterwards: after generate_insights it has the columns the scan         *)
(* produced, and so has a data file exported after generate_insights.      *)
(***************************************************************************)
C22_CollectionImmutable ==
    /\ insights.computed => columns = FrameColumns(photo_data)
    /\ exported # {} => exported = FrameColumns(photo_data)

(***************************************************************************)
(* C23: process_photo_directory returns one record per successfully parsed *)
(* image: every scanned file with a supported extension, in lower or upper *)
(* case, whose EXIF is read and is not empty has exactly one record, the   *)
(* records are in the order of the enumeration, and no file has two.       *)
(***************************************************************************)
SupportedExts == {".jpg", ".jpeg", ".tiff", ".tif", ".JPG", ".JPEG", ".TIFF", ".TIF"}

IsScanned(j) ==
    /\ directory[j].ext \in SupportedExts
    /\ recursive \/ ~directory[j].nested

RecordsOf(j) == {r \in 1..Len(photo_data) : photo_data[r].file = j}

C23_OneRecordPerImage ==
    bpc = "returned" =>
        /\ \A j \in 1..Len(directory) :
             (IsScanned(j) /\ IsValidFile(j)) => Cardinality(RecordsOf(j)) = 1
        /\ \A j \in 1..Len(directory) : Cardinality(RecordsOf(j)) <= 1
        /\ RecordedFiles = SelectSeq(image_files, IsValidFile)

(***************************************************************************)
(* C24: the most-used camera and the most-used lens that the reports show  *)
(* are values of maximal frequency in the collection, and the choice among *)
(* tied values depends only on how often each value occurs, not on the     *)
(* order of the records.                                                   *)
(***************************************************************************)
Reorderings(n) == {p \in [1..n -> 1..n] : \A i, j \in 1..n : p[i] = p[j] => i = j}

Reordered(col, p) == [j \in 1..Len(col) |-> col[p[j]]]

ShownColumn == Column(frame, IF rpc = "html_lens" THEN "lens" ELSE "camera")

C24_MostUsedDeterministic ==
    (rpc \in {"html_camera", "html_lens", "dashboard_camera"} /\ Len(frame) > 0) =>
        /\ \E j \in 1..Len(frame) : ShownColumn[j] = most_used
        /\ \A v \in Cameras \cup Lenses :
             CountOf(ShownColumn, v) <= CountOf(ShownColumn, most_used)
        /\ \A p \in Reorderings(Len(frame)) :
             MostUsed(Reordered(ShownColumn, p)) = most_used

\* Three cameras tie at one record each, the one encountered last sorting
\* first; that one is shown.
C24_Witness ==
    /\ rpc = "html_camera"
    /\ Len(frame) = 3
    /\ frame[1].camera = "Z6" /\ frame[2].camera = "EOS" /\ frame[3].camera = "D850"
    /\ most_used = "D850"

(***************************************************************************)
(* C25: main run with --output PATH and no --format, on a directory with   *)
(* at least one EXIF photo, writes an HTML report.                         *)
(***************************************************************************)
\* main has ended on a directory from which records were collected.
EndedWithPhotos == mpc = "exited" /\ berr = "" /\ Len(photo_data) > 0

C25_OutputMeansHtml ==
    (EndedWithPhotos /\ args.output /\ args.format = "console") =>
        "html" \in written

(***************************************************************************)
(* C26: main run with --format html, on a directory with at least one EXIF *)
(* photo, fills the template, writes the HTML file and ends without the    *)
(* error exit.                                                             *)
(***************************************************************************)
C26_HtmlReportSaved ==
    (EndedWithPhotos /\ args.format = "html") =>
        /\ written = {"html"}
        /\ exitCode = 0

(***************************************************************************)
(* C27: generate_insights is defined for every collection, the empty one   *)
(* included: it does not raise, total_photos is the number of records,     *)
(* gps_enabled_photos the number of records with latitude and longitude,   *)
(* and gps_percentage is 100 * gps_enabled_photos / total_photos, 0 for    *)
(* the empty collection.                                                   *)
(***************************************************************************)
WithBoth == {r \in 1..Len(photo_data) :
               photo_data[r].latitude.k # "none" /\ photo_data[r].longitude.k # "none"}

C27_InsightsTotal ==
    bpc \in {"insights", "insights_raised"} =>
        /\ bpc = "insights"
        /\ insights.total_photos = Len(photo_data)
        /\ insights.gps_enabled_photos = Cardinality(WithBoth)
        /\ insights.gps_percentage.k = "fin"
        /\ insights.gps_percentage.n * Len(photo_data)
             = 100 * Cardinality(WithBoth) * insights.gps_percentage.d
        /\ Len(photo_data) = 0 => insights.gps_percentage.n = 0

(***************************************************************************)
(* C28: commit_operation changes state only on success: for an unknown id  *)
(* it returns (False, 'Operation not found'), for a copy that fails it     *)
(* returns (False, error text), and in both cases no operation changes; an *)
(* operation's status only ever moves from 'staged' to 'committed'.        *)
(***************************************************************************)
StatusOnlyForward ==
    \A j \in 1..Len(staged_operations) :
        /\ j <= Len(staged_operations')
        /\ staged_operations'[j].status \in {"staged", "committed"}
        /\ staged_operations[j].status = "committed" =>
             staged_operations'[j].status = "committed"

FailedCommitChangesNothing ==
    (sout'.call = "commit_operation" /\ ~sout'.ok) =>
        staged_operations' = staged_operations

UnknownIdNotFound ==
    (sout'.call = "commit_operation"
       /\ \A j \in 1..Len(staged_operations) :
            staged_operations[j].operation_id # sout'.id) =>
        (~sout'.ok /\ sout'.msg = "Operation not found")

C28_CommitOnlyOnSuccess ==
    [][StatusOnlyForward /\ FailedCommitChangesNothing /\ UnknownIdNotFound]_vars

\* A commit whose copy failed has returned False and the operation is still
\* staged.
C28_Witness ==
    /\ sout.call = "commit_operation"
    /\ ~sout.ok
    /\ sout.msg = "Error"
    /\ sout.found = 1
    /\ staged_operations[1].status = "staged"

(***************************************************************************)
(* C29: after any sequence of stage_csv_creation and stage_json_creation   *)
(* calls, two at the same second included, every staged operation has an   *)
(* operation_id and a staged file path of its own, so that the id returned *)
(* by a staging call finds exactly the operation that call staged.         *)
(***************************************************************************)
C29_OperationIdsDistinct ==
    /\ \A j, k \in 1..Len(staged_operations) :
         j # k =>
            /\ staged_operations[j].operation_id # staged_operations[k].operation_id
            /\ StagedPath(staged_operations[j]) # StagedPath(staged_operations[k])
    /\ sout.call \in {"stage_csv_creation", "stage_json_creation"} =>
         FindOperation(staged_operations, sout.id) = sout.found

(***************************************************************************)
(* C30: start_file_monitoring(d) for a watchable directory d returns True  *)
(* and leaves exactly one running observer, watching d, whatever calls     *)
(* preceded it; never are two observers running; after                     *)
(* stop_file_monitoring none is running.                                   *)
(***************************************************************************)
Running == {j \in 1..Len(observers) : observers[j].state = "running"}

C30_OneObserver ==
    /\ Cardinality(Running) <= 1
    /\ (mout.call = "start_file_monitoring" /\ Watchable(mout.dir)) =>
         /\ mout.ok
         /\ \E j \in Running : Running = {j} /\ observers[j].watching = mout.dir
    /\ mout.call = "stop_file_monitoring" => Running = {}

====
